---- MODULE Spec2Model ----
(***************************************************************************)
(* A model of the conversational agent of src/src/agents/agent.service.ts. *)
(*                                                                         *)
(* Representation.  A JavaScript string is a Text: a sequence of tokens    *)
(* (words, or the fixed phrases of a template literal); the empty Text is  *)
(* the empty string, and stands for undefined/null wherever the code only  *)
(* tests truthiness.  A provider identifier (csp) is a single token, ""    *)
(* when it is absent.  A JavaScript object is a record; an object that is  *)
(* undefined or null is the record Undefined.  Timestamps are left out.    *)
(***************************************************************************)
EXTENDS Naturals, Sequences, FiniteSets, TLC

VARIABLES
    servicesData,   \* AgentService.servicesData: the catalog, or Undefined
    conversations,  \* AgentService.conversations: userId -> {csp, history}
    file,           \* conversations.json: userId -> {csp, history}
    pc,             \* per request: where its processMessage call stands
    turn,           \* per request: the locals of its processMessage call
    env,            \* the inputs the environment draws from (never changes)
    turnsLeft,      \* requests the environment may still send
    orderStore,     \* ConversationService: the saved OrderState, or Undefined
    domainCart,     \* the cart of the cart API: item -> quantity
    orderPc,        \* where the processOrderWithLocation call stands
    orderTurn,      \* what the processOrderWithLocation call has done
    ordersLeft      \* order requests the environment may still send

vars == <<servicesData, conversations, file, pc, turn, env, turnsLeft,
          orderStore, domainCart, orderPc, orderTurn, ordersLeft>>

\* Requests the environment sends in one behaviour of Spec.
MaxTurns == 2

Undefined == [undefined |-> TRUE]

Procs == {1, 2}

----------------------------------------------------------------------------
(* Strings *)

\* String.prototype.toLowerCase, on the tokens the model uses.
ToLowerCase(s) ==
    CASE s \in {"AWS", "Aws"} -> "aws"
      [] s \in {"Azure", "AZURE"} -> "azure"
      [] s \in {"GCP", "Gcp"} -> "gcp"
      [] s \in {"Oracle", "ORACLE"} -> "oracle"
      [] s = "VM" -> "vm"
      [] s = "EC2" -> "ec2"
      [] s = "I" -> "i"
      [] s = "Hi" -> "hi"
      [] s = "Virtual" -> "virtual"
      [] s = "Machine" -> "machine"
      [] s = "Storage" -> "storage"
      [] s = "Bucket" -> "bucket"
      [] s = "Cloud" -> "cloud"
      [] s = "Function" -> "function"
      [] s = "Kubernetes" -> "kubernetes"
      [] s = "Security" -> "security"
      [] s = "Groups" -> "groups"
      [] OTHER -> s

\* String.prototype.toUpperCase, on provider identifiers.
ToUpperCase(s) ==
    CASE s \in {"aws", "Aws"} -> "AWS"
      [] s \in {"azure", "Azure"} -> "AZURE"
      [] s \in {"gcp", "Gcp"} -> "GCP"
      [] s \in {"oracle", "Oracle"} -> "ORACLE"
      [] s = "vm" -> "VM"
      [] OTHER -> s

LowerText(t) == [i \in DOMAIN t |-> ToLowerCase(t[i])]

\* The tokens of t that are not "" (an empty token is surplus white space).
RECURSIVE DropEmpty(_)
DropEmpty(t) ==
    IF t = <<>> THEN <<>>
    ELSE IF Head(t) = "" THEN DropEmpty(Tail(t))
    ELSE <<Head(t)>> \o DropEmpty(Tail(t))

\* normalize = str.trim().toLowerCase().replace(/\s+/g, ' ')
normalize(str) == LowerText(DropEmpty(str))

\* a.includes(b): b occurs in a as a run of consecutive tokens.
Includes(a, b) ==
    \E i \in 0..Len(a) :
        /\ i + Len(b) <= Len(a)
        /\ \A j \in 1..Len(b) : a[i + j] = b[j]

\* Tokens w1, w2 occur next to each other in t (a two-word regex literal).
Adjacent(t, w1, w2) == Includes(t, <<w1, w2>>)

\* Token w1 occurs in t before token w2 (the regex w1.*w2).
Follows(t, w1, w2) ==
    \E i, j \in DOMAIN t : i < j /\ t[i] = w1 /\ t[j] = w2

\* msg1 is a prefix of msg2.
IsPrefix(s, t) == Len(s) <= Len(t) /\ SubSeq(t, 1, Len(s)) = s

Map(s, F(_)) == [i \in DOMAIN s |-> F(s[i])]

----------------------------------------------------------------------------
(* The catalog (services.json) *)

Providers == {"aws", "azure", "gcp", "oracle"}

Field(id) == [fieldId |-> id]

Service(name, cloud, fields) ==
    [name |-> name, description |-> <<"about">> \o name, cloud |-> cloud,
     requiredFields |-> fields]

SampleCatalog ==
    [list |-> <<
        Service(<<"Virtual", "Machine">>, "aws",
                <<Field("instanceName"), Field("instanceType")>>),
        Service(<<"Storage", "Bucket">>, "aws", <<Field("bucketName")>>),
        Service(<<"Virtual", "Machine">>, "azure", <<Field("vmName")>>),
        Service(<<"Cloud", "Function">>, "GCP", <<Field("functionName")>>)
    >>]

\* The first element of s that satisfies Test, or Undefined (Array.find).
Find(s, Test(_)) ==
    LET hits == SelectSeq(s, Test) IN IF hits = <<>> THEN Undefined ELSE hits[1]

\* The lookup comparing the cloud tag as stored, not its lowercase form.
findMatchingServiceOfStoredTag(data, serviceName, csp) ==
    IF data = Undefined THEN Undefined
    ELSE LET normalizedServiceName == normalize(serviceName)
             normalizedCsp == IF csp # "" THEN ToLowerCase(csp) ELSE "aws"
             Matches(service) ==
                 /\ Includes(normalize(service.name), normalizedServiceName)
                 /\ service.cloud = normalizedCsp
         IN Find(data.list, Matches)

\* findMatchingServiceByName (lines 606-620) on the catalog data.
findMatchingServiceByNameIn(data, serviceName, csp) ==
    IF data = Undefined THEN Undefined
    ELSE LET normalizedServiceName == normalize(serviceName)
             normalizedCsp == IF csp # "" THEN ToLowerCase(csp) ELSE "aws"
             Matches(service) ==
                 /\ Includes(normalize(service.name), normalizedServiceName)
                 /\ ToLowerCase(service.cloud) = normalizedCsp
         IN Find(data.list, Matches)

findMatchingServiceByName(serviceName, csp) ==
    findMatchingServiceByNameIn(servicesData, serviceName, csp)

\* The catalog filtered by the context as given, not by its lowercase form.
getMenuOfGivenCase(data, csp, friendly) ==
    IF data = Undefined THEN << <<"No services data available.">> >>
    ELSE LET cspLower == ToLowerCase(csp)
             InCsp(s) == s.cloud = csp
             services == SelectSeq(data.list, InCsp)
             FriendlyItem(s) == <<"Provision or manage a">> \o s.name
             PlainItem(s) == <<"Provision a">> \o s.name
         IN IF friendly
            THEN Map(services, FriendlyItem) \o
                 (CASE cspLower = "aws" ->
                         << <<"View AWS security groups">>,
                            <<"Ask general questions about AWS">> >>
                    [] cspLower = "azure" ->
                         << <<"Ask general questions about Azure services">>,
                            <<"Get help with Azure resources">> >>
                    [] cspLower = "gcp" ->
                         << <<"Ask general questions about Google Cloud">>,
                            <<"Get help with GCP resources">> >>
                    [] cspLower = "oracle" ->
                         << <<"Ask general questions about Oracle Cloud">>,
                            <<"Get help with Oracle Cloud resources">> >>
                    [] OTHER -> <<>>)
            ELSE Map(services, PlainItem) \o
                 (CASE cspLower = "aws" ->
                         << <<"List the security groups">>,
                            <<"Ask general questions about AWS">> >>
                    [] cspLower = "azure" ->
                         << <<"Ask general questions about Azure">> >>
                    [] cspLower = "gcp" ->
                         << <<"Ask general questions about GCP">> >>
                    [] cspLower = "oracle" ->
                         << <<"Ask general questions about Oracle Cloud">> >>
                    [] OTHER -> <<>>)

\* getMenuForCSP(csp, friendly) over a given catalog.
getMenuIn(data, csp, friendly) ==
    IF data = Undefined THEN << <<"No services data available.">> >>
    ELSE LET cspLower == ToLowerCase(csp)
             InCsp(s) == s.cloud = cspLower
             services == SelectSeq(data.list, InCsp)
             FriendlyItem(s) == <<"Provision or manage a">> \o s.name
             PlainItem(s) == <<"Provision a">> \o s.name
         IN IF friendly
            THEN Map(services, FriendlyItem) \o
                 (CASE cspLower = "aws" ->
                         << <<"View AWS security groups">>,
                            <<"Ask general questions about AWS">> >>
                    [] cspLower = "azure" ->
                         << <<"Ask general questions about Azure services">>,
                            <<"Get help with Azure resources">> >>
                    [] cspLower = "gcp" ->
                         << <<"Ask general questions about Google Cloud">>,
                            <<"Get help with GCP resources">> >>
                    [] cspLower = "oracle" ->
                         << <<"Ask general questions about Oracle Cloud">>,
                            <<"Get help with Oracle Cloud resources">> >>
                    [] OTHER -> <<>>)
            ELSE Map(services, PlainItem) \o
                 (CASE cspLower = "aws" ->
                         << <<"List the security groups">>,
                            <<"Ask general questions about AWS">> >>
                    [] cspLower = "azure" ->
                         << <<"Ask general questions about Azure">> >>
                    [] cspLower = "gcp" ->
                         << <<"Ask general questions about GCP">> >>
                    [] cspLower = "oracle" ->
                         << <<"Ask general questions about Oracle Cloud">> >>
                    [] OTHER -> <<>>)

getMenuForCSP(csp, friendly) == getMenuIn(servicesData, csp, friendly)

\* csp || 'aws'
OrAws(csp) == IF csp # "" THEN csp ELSE "aws"

----------------------------------------------------------------------------
(* The workflow state (CloudState) and the shapes of actions *)

\* A payload with every property absent.  A property that is absent, undefined
\* or empty is written as its falsy value: <<>>, "" or 0.
EmptyPayload ==
    [service |-> <<>>, csp |-> "", message |-> <<>>, questionCount |-> 0,
     resourceType |-> <<>>]

\* An action; type "" is a type that is undefined, payload Undefined a payload
\* that is undefined.
Action(type, payload) == [type |-> type, payload |-> payload]

ActionTypes ==
    {"GENERAL_RESPONSE", "DEPLOY", "CONFIGURE", "LIST_RESOURCES",
     "VIEW_CSP_OPTIONS", "SELECT_CSP", "CONVERSATION_SUMMARY"}

\* A value of the model that stands for a JSON value that is not a string.
NonString == "<non-string>"

\* The cloudState processMessage hands to the workflow.  conversationHistory is
\* the user's history array itself (a reference), so it is read from
\* conversations where the code reads it.
InitialCloudState(query, csp) ==
    [query |-> query, action |-> Undefined, csp |-> csp, response |-> Undefined,
     finalResponse |-> Undefined, event |-> ""]

HumanEntry(content) == [role |-> "human", content |-> content]
AssistantEntry(reply) == [role |-> "assistant", reply |-> reply]

IsHuman(msg) == msg.role = "human"
ContentOf(msg) == msg.content

\* conversationHistory.filter(msg => msg.role === 'human').map(content)
HumanContents(history) == Map(SelectSeq(history, IsHuman), ContentOf)

\* [...new Set(s)]: the distinct elements of s in first-occurrence order.
RECURSIVE Unique(_)
Unique(s) ==
    IF s = <<>> THEN <<>>
    ELSE LET front == Unique(SubSeq(s, 1, Len(s) - 1))
             last == s[Len(s)]
         IN IF \E i \in DOMAIN front : front[i] = last THEN front
            ELSE Append(front, last)

\* s.slice(0, -1)
DropLast(s) == IF s = <<>> THEN <<>> ELSE SubSeq(s, 1, Len(s) - 1)

----------------------------------------------------------------------------
(* findAction: agent.service.ts 138-312 *)

Numerals == {"0", "1", "2", "3", "4", "5", "6", "7", "8", "9"}
ParseInt(s) == CHOOSE n \in 0..9 : ToString(n) = s

\* message.match(/(\d+)\s+questions?/i): the number, or 0 when nothing matches
\* (the code tests the result only for truthiness).
CountInMessage(msg) ==
    LET hits == {i \in DOMAIN msg :
                    /\ msg[i] \in Numerals
                    /\ i < Len(msg)
                    /\ ToLowerCase(msg[i + 1]) \in
                          {"question", "questions", "questions so far."}}
    IN IF hits = {} THEN 0
       ELSE ParseInt(msg[CHOOSE i \in hits : \A j \in hits : i <= j])

WorkflowAction(workflow) ==
    CASE workflow = "conversationSummary" -> "CONVERSATION_SUMMARY"
      [] workflow = "deployService" -> "DEPLOY"
      [] workflow = "configureService" -> "CONFIGURE"
      [] workflow = "listResources" -> "LIST_RESOURCES"
      [] workflow = "viewCspOptions" -> "VIEW_CSP_OPTIONS"
      [] workflow = "selectCsp" -> "SELECT_CSP"
      [] OTHER -> "GENERAL_RESPONSE"

\* A fallback that forgets the message of the user.
FallbackWithoutMessage(cloudState) ==
    [cloudState EXCEPT !.action = Action("GENERAL_RESPONSE", EmptyPayload)]

\* The three fallbacks of findAction (lines 275-283, 290-298, 302-310).
GeneralFallback(cloudState) ==
    [cloudState EXCEPT
        !.action = Action("GENERAL_RESPONSE",
                          [EmptyPayload EXCEPT !.message = cloudState.query])]

\* Lines 199-257: the text-generation service returned a complete reply.
RepairCompleteResponse(cloudState, parsed) ==
    LET r == parsed.response
        actionType == WorkflowAction(parsed.workflow)
        fromMessage ==
            IF actionType = "CONVERSATION_SUMMARY"
            THEN CountInMessage(r.message) ELSE 0
        questionCount ==
            IF /\ actionType = "CONVERSATION_SUMMARY"
               /\ fromMessage = 0
               /\ "previousQuestions" \in DOMAIN r
            THEN Len(r.previousQuestions) ELSE fromMessage
    IN IF r.csp = NonString THEN GeneralFallback(cloudState)
       ELSE [cloudState EXCEPT
                !.action = Action(actionType,
                    [EmptyPayload EXCEPT
                        !.service = r.service,
                        !.csp = IF r.csp # "" THEN r.csp ELSE cloudState.csp,
                        !.message = r.message,
                        !.questionCount = questionCount]),
                !.csp = IF r.csp # "" THEN ToLowerCase(r.csp)
                        ELSE cloudState.csp]

\* Lines 259-271: the expected {action: ...} format.
AcceptAction(cloudState, action) ==
    LET hint == IF action.payload = Undefined THEN "" ELSE action.payload.csp
    IN IF hint = NonString THEN GeneralFallback(cloudState)
       ELSE [cloudState EXCEPT
                !.action = action,
                !.csp = IF hint # "" THEN ToLowerCase(hint) ELSE cloudState.csp]

\* llm is what llm.invoke did: it threw, it returned text that is no JSON, or
\* it returned JSON (null, or an object with the properties role, workflow,
\* response and action, each possibly absent).
findAction(cloudState, llm) ==
    IF llm.kind \in {"throw", "text"} THEN GeneralFallback(cloudState)
    ELSE LET parsed == llm.value IN
         IF parsed = [null |-> TRUE] THEN GeneralFallback(cloudState)
         ELSE IF /\ parsed.role = "assistant"
                 /\ parsed.workflow # ""
                 /\ parsed.response # Undefined
              THEN RepairCompleteResponse(cloudState, parsed)
         ELSE IF parsed.action # Undefined
              THEN AcceptAction(cloudState, parsed.action)
         ELSE GeneralFallback(cloudState)

----------------------------------------------------------------------------
(* processAction: agent.service.ts 399-604 *)

\* What a node of the workflow did: it threw, or it returned a state.
Threw(cloudState) == [threw |-> TRUE, state |-> cloudState]
Returned(cloudState) == [threw |-> FALSE, state |-> cloudState]

\* The answer of an external call that was not made.
NoCall == [kind |-> "none"]

\* /how many|number of/i.test(text)
IsCountQuery(text) ==
    LET t == LowerText(text)
    IN Adjacent(t, "how", "many") \/ Adjacent(t, "number", "of")

StartsWithYouHaveAsked(text) == text # <<>> /\ text[1] = "You have asked"

IncludesSummary(text) ==
    \E i \in DOMAIN text :
        text[i] \in {"summary", "Here's a summary of our conversation so far:"}

CountMessage(count) == <<"You have asked", ToString(count), "questions so far.">>

\* if (customResponse) updatedState.response.customMessage = customResponse
\* (lines 598-601); a response that is still null makes the assignment throw.
SetCustomMessage(cloudState, customResponse) ==
    IF customResponse = <<>> THEN Returned(cloudState)
    ELSE IF cloudState.response = Undefined THEN Threw(cloudState)
    ELSE Returned([cloudState EXCEPT
            !.response = [customMessage |-> customResponse] @@ @])

\* Lines 457-465: the distinct human messages, the last one removed.
PreviousQuestions(history) == DropLast(Unique(HumanContents(history)))

\* case 'CONVERSATION_SUMMARY' (lines 415-489)
ConversationSummary(cloudState, history) ==
    LET payload == cloudState.action.payload
        response == cloudState.response
        apology == <<"I apologize, but I encountered an error retrieving your conversation history.">>
    IN IF payload = Undefined
       THEN \* action.payload.message throws; the catch of line 481
            SetCustomMessage(
                [cloudState EXCEPT
                    !.response = [status |-> "error", message |-> apology]],
                apology)
       ELSE
       LET count ==
               IF payload.questionCount # 0 THEN payload.questionCount
               ELSE Len(HumanContents(history)) - 1
           customResponse ==
               IF /\ payload.message # <<>>
                  /\ ~StartsWithYouHaveAsked(payload.message)
                  /\ ~IncludesSummary(payload.message)
               THEN payload.message
               ELSE IF IsCountQuery(IF payload.message # <<>>
                                    THEN payload.message
                                    ELSE cloudState.query)
               THEN CountMessage(count)
               ELSE <<"Here's a summary of our conversation so far:">>
           previousQuestions == PreviousQuestions(history)
           actualCount == Len(previousQuestions)
       IN IF response # Undefined /\ "previousQuestions" \in DOMAIN response
          THEN SetCustomMessage(
                  [cloudState EXCEPT
                      !.event = "conversation_summarized",
                      !.response =
                          [status |-> "conversation_summarized",
                           message |-> IF "message" \in DOMAIN response
                                          /\ response.message # <<>>
                                       THEN response.message
                                       ELSE customResponse] @@ response],
                  customResponse)
          ELSE SetCustomMessage(
                  [cloudState EXCEPT
                      !.event = "conversation_summarized",
                      !.response =
                          [status |-> "conversation_summarized",
                           message |-> customResponse,
                           previousQuestions |-> previousQuestions,
                           questionCount |->
                               IF payload.questionCount # 0
                               THEN payload.questionCount
                               ELSE actualCount]],
                  customResponse)

\* generateExampleValues (lines 335-397): llm is what llm.invoke did.  The
\* result is the parsed JSON, or the default list when the call threw or the
\* text did not parse.
generateExampleValues(service, llm) ==
    LET Default(field) ==
            [fieldId |-> field.fieldId, exampleValue |-> <<>>,
             explanation |-> <<"Please provide a value appropriate for this field.">>]
    IN IF llm.kind \in {"throw", "text"}
       THEN [fields |-> Map(service.requiredFields, Default)]
       ELSE llm.value

\* Lines 501-508: each required field with its example.
EnhanceFields(service, exampleValues) ==
    LET Enhance(field) ==
            LET IsIt(ef) == ef.fieldId = field.fieldId
                exampleField == Find(exampleValues.fields, IsIt)
            IN [exampleValue |-> IF exampleField = Undefined THEN <<>>
                                 ELSE exampleField.exampleValue,
                explanation |-> IF exampleField = Undefined THEN <<>>
                                ELSE exampleField.explanation] @@ field
    IN Map(service.requiredFields, Enhance)

NameOf(s) == s.name

\* Lines 526-528: the names of the catalog entries of the context.
AvailableServices(data, csp) ==
    IF data = Undefined THEN <<>>
    ELSE LET InCsp(s) == s.cloud = ToLowerCase(OrAws(csp))
         IN Map(SelectSeq(data.list, InCsp), NameOf)

\* case 'DEPLOY' (lines 491-539); llm answers the example-value call.
Deploy(cloudState, llm) ==
    LET payload == cloudState.action.payload
        csp == cloudState.csp
    IN IF payload = Undefined THEN Threw(cloudState)
       ELSE IF payload.service = <<>> THEN Returned(cloudState)
       ELSE
       LET service == payload.service
           matchingService == findMatchingServiceByName(service, csp)
           exampleValues == generateExampleValues(matchingService, llm)
           notAvailable ==
               <<"Sorry, the">> \o service \o
               <<"service is currently not available to provision in",
                 ToUpperCase(OrAws(csp)),
                 "Please select from the available services.">>
       IN IF matchingService # Undefined
          THEN IF "fields" \notin DOMAIN exampleValues
               THEN Threw(cloudState)   \* exampleValues.fields.find
               ELSE Returned(
                  [cloudState EXCEPT
                      !.event = "service_configuration",
                      !.response =
                          [status |-> "service_found",
                           message |->
                               <<"Found service configuration for">> \o
                               matchingService.name \o
                               <<"on", ToUpperCase(matchingService.cloud)>>,
                           serviceConfig |->   \* the property `service`
                               [name |-> matchingService.name,
                                description |-> matchingService.description,
                                cloud |-> matchingService.cloud,
                                requiredFields |->
                                    EnhanceFields(matchingService, exampleValues)],
                           details |-> payload]])
          ELSE SetCustomMessage(
                  [cloudState EXCEPT
                      !.event = "service_not_found",
                      !.response =
                          [status |-> "service_not_found",
                           availableServices |->
                               AvailableServices(servicesData, csp),
                           message |-> notAvailable]],
                  notAvailable)

\* resourceType.toLowerCase().includes('security group')
IsSecurityGroup(resourceType) ==
    LET t == LowerText(resourceType)
    IN Adjacent(t, "security", "group") \/ Adjacent(t, "security", "groups")

\* case 'LIST_RESOURCES' (lines 541-553); sgList is what
\* listAWSSecurityGroups returned.
ListResources(cloudState, sgList) ==
    LET payload == cloudState.action.payload
    IN IF payload = Undefined THEN Threw(cloudState)
       ELSE IF /\ payload.resourceType # <<>>
               /\ IsSecurityGroup(payload.resourceType)
               /\ cloudState.csp = "aws"
       THEN SetCustomMessage(
               [cloudState EXCEPT
                   !.event = "resources_listed",
                   !.response =
                       [status |-> "resources_listed", message |-> sgList,
                        resourceType |-> payload.resourceType]],
               sgList)
       ELSE Returned(cloudState)

\* case 'SELECT_CSP' (lines 555-567)
SelectCsp(cloudState) ==
    LET payload == cloudState.action.payload
    IN IF payload = Undefined THEN Threw(cloudState)
       ELSE IF payload.csp = "" THEN Returned(cloudState)
       ELSE
       LET selectedCsp == payload.csp
           customResponse ==
               <<"You have selected", ToUpperCase(selectedCsp),
                 "as your Cloud Service Provider.">>
       IN SetCustomMessage(
              [cloudState EXCEPT
                  !.csp = ToLowerCase(selectedCsp),
                  !.event = "csp_selected",
                  !.response =
                      [status |-> "csp_selected", message |-> customResponse,
                       csp |-> ToLowerCase(selectedCsp)]],
              customResponse)

CspOptions == <<"AWS", "Azure", "GCP", "Oracle Cloud">>

\* cspOption.toLowerCase().replace(' cloud', '')
OptionCsp(cspOption) ==
    IF cspOption = "Oracle Cloud" THEN "oracle" ELSE ToLowerCase(cspOption)

\* case 'VIEW_CSP_OPTIONS' (lines 569-592)
ViewCspOptions(cloudState) ==
    LET customResponse == <<"Here are the available cloud service providers:">>
        ServicesOf(cspOption) ==
            LET InCsp(s) == s.cloud = OptionCsp(cspOption)
            IN Map(SelectSeq(servicesData.list, InCsp), NameOf)
        availableServicesPerCsp ==
            IF servicesData = Undefined THEN <<>>
            ELSE [i \in DOMAIN CspOptions |-> ServicesOf(CspOptions[i])]
    IN SetCustomMessage(
           [cloudState EXCEPT
               !.event = "csp_options_shown",
               !.response =
                   [status |-> "csp_options_shown", message |-> customResponse,
                    cspOptions |-> CspOptions,
                    availableServicesPerCsp |-> availableServicesPerCsp]],
           customResponse)

\* Whether processAction makes the example-value call: a DEPLOY that names a
\* service of the catalog.
CallsExampleValues(cloudState) ==
    /\ cloudState.action # Undefined
    /\ cloudState.action.type = "DEPLOY"
    /\ cloudState.action.payload # Undefined
    /\ cloudState.action.payload.service # <<>>
    /\ findMatchingServiceByName(cloudState.action.payload.service,
                                 cloudState.csp) # Undefined

\* Whether processAction makes the resource-listing call.
CallsListResources(cloudState) ==
    /\ cloudState.action # Undefined
    /\ cloudState.action.type = "LIST_RESOURCES"
    /\ cloudState.action.payload # Undefined
    /\ cloudState.action.payload.resourceType # <<>>
    /\ IsSecurityGroup(cloudState.action.payload.resourceType)
    /\ cloudState.csp = "aws"

\* processAction.  history is the user's history when the node runs; ext is
\* the answer of the one external call the node makes, if it makes one.
processAction(cloudState, history, ext) ==
    IF cloudState.action = Undefined THEN Returned(cloudState)
    ELSE CASE cloudState.action.type = "CONVERSATION_SUMMARY" ->
                  ConversationSummary(cloudState, history)
           [] cloudState.action.type = "DEPLOY" -> Deploy(cloudState, ext)
           [] cloudState.action.type = "LIST_RESOURCES" ->
                  ListResources(cloudState,
                                IF ext.kind = "listed" THEN ext.text ELSE <<>>)
           [] cloudState.action.type = "SELECT_CSP" -> SelectCsp(cloudState)
           [] cloudState.action.type = "VIEW_CSP_OPTIONS" ->
                  ViewCspOptions(cloudState)
           [] OTHER -> Returned(cloudState)

----------------------------------------------------------------------------
(* generateUnifiedResponse: agent.service.ts 622-921 *)

\* The regular expression of line 627, on the tokens of the query.
IsConversationHistoryQuery(query) ==
    LET t == LowerText(query)
        Has(w) == \E i \in DOMAIN t : t[i] = w
    IN \/ Follows(t, "what", "asked")
       \/ Follows(t, "conversation", "history")
       \/ Follows(t, "previous", "questions")
       \/ \E i \in DOMAIN t : t[i] = "questions" /\
             Adjacent(SubSeq(t, i + 1, Len(t)), "so", "far")
       \/ Has("history")
       \/ Has("recap")
       \/ Follows(t, "summarize", "conversation")
       \/ \E i \in DOMAIN t : t[i] = "questions" /\
             Adjacent(SubSeq(t, 1, i - 1), "how", "many")
       \/ Includes(t, <<"number", "of", "questions">>)

Reply(workflow, response) ==
    [role |-> "assistant", workflow |-> workflow, response |-> response]

ErrorMessage ==
    <<"I apologize, but I encountered an error processing your request. Could you please try again or rephrase your question?">>

\* An error answered as an ordinary reply, without the error workflow.
createPlainResponse(cloudState, message) ==
    [cloudState EXCEPT
        !.finalResponse =
            Reply("generalResponse",
                  [message |-> <<"Something went wrong.">>,
                   menu |-> getMenuForCSP(OrAws(cloudState.csp), TRUE)])]

\* createErrorResponse (lines 909-921)
createErrorResponse(cloudState, message) ==
    [cloudState EXCEPT
        !.finalResponse =
            Reply("errorResponse",
                  [message |-> message,
                   menu |-> getMenuForCSP(OrAws(cloudState.csp), TRUE)])]

\* Lines 630-639: the query asks about the conversation and the action is not
\* a summary.
Reclassifies(cloudState) ==
    /\ IsConversationHistoryQuery(cloudState.query)
    /\ \/ cloudState.action = Undefined
       \/ cloudState.action.type # "CONVERSATION_SUMMARY"

\* Lines 642-643
HasSummary(cloudState) ==
    /\ cloudState.action # Undefined
    /\ cloudState.action.type = "CONVERSATION_SUMMARY"
    /\ cloudState.response # Undefined
    /\ \/ "previousQuestions" \in DOMAIN cloudState.response
       \/ /\ "questionCount" \in DOMAIN cloudState.response
          /\ cloudState.response.questionCount # 0

\* Line 659
HasCustomMessage(cloudState) ==
    /\ cloudState.response # Undefined
    /\ "customMessage" \in DOMAIN cloudState.response
    /\ cloudState.response.customMessage # <<>>

\* Line 676
HasServiceFound(cloudState) ==
    /\ cloudState.response # Undefined
    /\ "status" \in DOMAIN cloudState.response
    /\ cloudState.response.status = "service_found"

\* Whether generateUnifiedResponse makes its text-generation call.
CallsSynthesis(cloudState) ==
    /\ ~Reclassifies(cloudState)
    /\ ~HasSummary(cloudState)
    /\ ~HasCustomMessage(cloudState)
    /\ ~HasServiceFound(cloudState)

\* The value of property key of a parsed object: the value of its first entry
\* with that key, <<>> when it has none.
Prop(object, key) ==
    LET IsKey(e) == e.key = key
        hits == SelectSeq(object.entries, IsKey)
    IN IF hits = <<>> THEN <<>> ELSE hits[1].value

IsString(value) == value # <<NonString>>

\* Lines 842-855
WorkflowType(cloudState) ==
    IF IsConversationHistoryQuery(cloudState.query) THEN "conversationSummary"
    ELSE IF cloudState.action = Undefined THEN "generalResponse"
    ELSE CASE cloudState.action.type = "DEPLOY" -> "deployService"
           [] cloudState.action.type = "CONFIGURE" -> "configureService"
           [] cloudState.action.type = "LIST_RESOURCES" -> "listResources"
           [] cloudState.action.type = "VIEW_CSP_OPTIONS" -> "viewCspOptions"
           [] cloudState.action.type = "SELECT_CSP" -> "selectCsp"
           [] OTHER -> "generalResponse"

\* Lines 815-839: the message taken from the text the service returned.
\* parsed is the parsed JSON, {answer: raw} when the text did not parse.
ResponseMessage(parsed, raw) ==
    IF "scalar" \in DOMAIN parsed THEN raw
    ELSE IF Prop(parsed, "answer") # <<>> THEN Prop(parsed, "answer")
    ELSE IF /\ parsed.response # Undefined
            /\ "message" \in DOMAIN parsed.response
            /\ parsed.response.message # <<>>
         THEN parsed.response.message
    ELSE LET IsStr(e) == IsString(e.value) /\ e.value # <<>>
             stringProps == SelectSeq(parsed.entries, IsStr)
         IN IF stringProps # <<>> THEN stringProps[1].value
            ELSE <<"JSON.stringify(parsedResponse)">>

\* {answer: responseContent}
AnswerObject(raw) ==
    [entries |-> << [key |-> "answer", value |-> raw] >>, response |-> Undefined]

\* Lines 751-906: the text-generation call and what is made of its answer.
\* region and specifications, which the reply copies from the payload and
\* nothing reads, are left out.
Synthesize(cloudState, history, llm) ==
    LET csp == cloudState.csp
        action == cloudState.action
        isHistoryQuery == IsConversationHistoryQuery(cloudState.query)
        menu == getMenuForCSP(OrAws(csp), TRUE)
    IN IF llm.kind = "throw" THEN createErrorResponse(cloudState, ErrorMessage)
       ELSE
       LET unparsed == llm.kind = "text" \/ llm.value = [null |-> TRUE]
           parsed == IF unparsed THEN AnswerObject(llm.raw) ELSE llm.value
           isObject == ~unparsed /\ "entries" \in DOMAIN parsed
           EnsureMenu(r) == IF "menu" \in DOMAIN r THEN r
                            ELSE [menu |-> menu] @@ r
           hasPayload == action # Undefined /\ action.payload # Undefined
           msgCsp == IF hasPayload /\ action.payload.csp # ""
                     THEN action.payload.csp ELSE csp
           msgService == IF hasPayload THEN action.payload.service ELSE <<>>
           previousQuestions ==
               IF isHistoryQuery
               THEN [previousQuestions |-> DropLast(HumanContents(history))]
               ELSE <<>>
       IN IF /\ isObject
             /\ isHistoryQuery
             /\ Prop(parsed, "role") = <<"assistant">>
             /\ Prop(parsed, "workflow") = <<"conversationSummary">>
             /\ parsed.response # Undefined
          THEN [cloudState EXCEPT
                   !.finalResponse =
                       Reply("conversationSummary", EnsureMenu(parsed.response))]
          ELSE IF /\ isObject
                  /\ Prop(parsed, "role") = <<"assistant">>
                  /\ Prop(parsed, "workflow") # <<>>
                  /\ parsed.response # Undefined
                  /\ "message" \in DOMAIN parsed.response
                  /\ IsString(parsed.response.message)
          THEN [cloudState EXCEPT
                   !.finalResponse =
                       Reply(Prop(parsed, "workflow")[1],
                             EnsureMenu(parsed.response))]
          ELSE [cloudState EXCEPT
                   !.finalResponse =
                       Reply(WorkflowType(cloudState),
                             [message |-> ResponseMessage(parsed, llm.raw),
                              service |-> msgService,
                              csp |-> msgCsp,
                              menu |-> getMenuForCSP(OrAws(msgCsp), TRUE)]
                             @@ previousQuestions)]

\* generateUnifiedResponse.  history is the user's history when the node
\* runs; llm is the answer of its text-generation call, if it makes it.
generateUnifiedResponse(cloudState, history, llm) ==
    LET response == cloudState.response
        menu == getMenuForCSP(OrAws(cloudState.csp), TRUE)
    IN IF Reclassifies(cloudState)
       THEN processAction(
               [cloudState EXCEPT
                   !.action = Action("CONVERSATION_SUMMARY",
                       [EmptyPayload EXCEPT !.message = cloudState.query])],
               history, NoCall)
       ELSE IF HasSummary(cloudState)
       THEN Returned([cloudState EXCEPT
               !.finalResponse =
                   Reply("conversationSummary", [menu |-> menu] @@ response)])
       ELSE IF HasCustomMessage(cloudState)
       THEN Returned([cloudState EXCEPT
               !.finalResponse =
                   Reply(IF "status" \in DOMAIN response /\ response.status # ""
                         THEN response.status ELSE "customResponse",
                         [menu |-> menu] @@ response @@
                         [message |-> response.customMessage])])
       ELSE IF HasServiceFound(cloudState)
       THEN Returned([cloudState EXCEPT
               !.finalResponse =
                   Reply("serviceConfiguration",
                         [message |->
                              <<"To provision">> \o response.serviceConfig.name \o
                              <<"on", ToUpperCase(response.serviceConfig.cloud),
                                "please provide the following information:">>,
                          serviceConfig |-> response.serviceConfig,
                          details |-> response.details,
                          menu |-> menu])])
       ELSE Returned(Synthesize(cloudState, history, llm))

----------------------------------------------------------------------------
(* The conversation store: agent.service.ts 979-1016 *)

Conversation(csp, history) == [csp |-> csp, history |-> history]

\* An empty collection: {} in memory, a missing or empty conversations.json.
NoConversations == <<>>

\* loadAllConversationsFromFile: a failed read or parse gives {}.
loadAllConversationsFromFile(stored, readOk) ==
    IF readOk THEN stored ELSE NoConversations

\* JSON.stringify leaves out a property whose value is undefined: the content
\* of an assistant entry whose reply was undefined.
StringifyEntry(entry) ==
    IF /\ entry.role = "assistant"
       /\ "reply" \in DOMAIN entry
       /\ entry.reply = Undefined
    THEN [role |-> "assistant"]
    ELSE entry

\* JSON.stringify(conversations, null, 2) of line 999, for one conversation,
\* as JSON.parse (line 984) reads it back.
Stringify(conversation) ==
    [conversation EXCEPT !.history = Map(@, StringifyEntry)]

\* A failed write that leaves an empty file behind.
saveTruncating(stored, all, writeOk) ==
    IF writeOk THEN [userId \in DOMAIN all |-> Stringify(all[userId])]
    ELSE NoConversations

\* saveAllConversationsToFile: a failed write is logged and leaves the file.
saveAllConversationsToFile(stored, all, writeOk) ==
    IF writeOk THEN [userId \in DOMAIN all |-> Stringify(all[userId])]
    ELSE stored

\* A record that is written only for a user the collection does not hold yet.
PutIfAbsent(all, userId, conversation) == all @@ (userId :> conversation)

\* allConversations[userId] = conversation
Put(all, userId, conversation) == (userId :> conversation) @@ all

\* A save that gives up when the re-read fails.
saveUnlessReadFails(stored, userId, conversation, io) ==
    IF io.readOk
    THEN saveAllConversationsToFile(stored,
             Put(stored, userId, conversation), io.writeOk)
    ELSE stored

\* A save that writes the user's record alone, without the re-read.
saveUserConversationAlone(stored, userId, conversation, io) ==
    saveAllConversationsToFile(stored,
        Put(NoConversations, userId, conversation), io.writeOk)

\* saveUserConversation: the file it leaves.
saveUserConversation(stored, userId, conversation, io) ==
    saveAllConversationsToFile(
        stored,
        Put(loadAllConversationsFromFile(stored, io.readOk), userId, conversation),
        io.writeOk)

\* An entry that takes the place of the last one instead of following it.
ReplaceLastEntry(history, entry) == Append(DropLast(history), entry)

\* userConversation.history.push(entry)
PushEntry(history, entry) == Append(history, entry)

Push(all, userId, entry) ==
    [all EXCEPT ![userId].history = PushEntry(@, entry)]

----------------------------------------------------------------------------
(* processMessage: agent.service.ts 1032-1215 *)

\* message.match(/(aws|azure|gcp|oracle)/i)?.[0]?.toLowerCase(): "" when the
\* message names no provider.
CspInMessage(message) ==
    LET hits == {i \in DOMAIN message : ToLowerCase(message[i]) \in Providers}
    IN IF hits = {} THEN ""
       ELSE ToLowerCase(message[CHOOSE i \in hits : \A j \in hits : i <= j])

\* Lines 1130-1146
ResolveCsp(all, message, userId, csp) ==
    LET cspInMessage == CspInMessage(message)
        userCSP ==
            IF cspInMessage # "" THEN cspInMessage
            ELSE IF csp # "" THEN ToLowerCase(csp)
            ELSE IF userId \in DOMAIN all THEN all[userId].csp
            ELSE "aws"
    IN OrAws(userCSP)

\* message.match(/deploy\s+(?:a|an)?\s*([a-zA-Z0-9\s]+)(?:\s+in|\s+on)?\s+([a-zA-Z0-9]+)?/i)
\* on the words of the message: group 1 is greedy, so it takes every word
\* after "deploy" (and the article) but the last, which is left to group 2.
DeployMatches(message) ==
    LET t == LowerText(message)
        at == {i \in DOMAIN t : t[i] = "deploy"}
        first == CHOOSE i \in at : \A j \in at : i <= j
        rest == SubSeq(message, first + 1, Len(message))
        n == Len(rest)
    IN IF at = {} \/ n < 2 THEN [matched |-> FALSE]
       ELSE IF n >= 3 /\ ToLowerCase(rest[1]) = "a"
       THEN [matched |-> TRUE, g1 |-> SubSeq(rest, 2, n - 1), g2 |-> rest[n]]
       ELSE IF ToLowerCase(rest[1]) = "an"
       THEN [matched |-> TRUE, g1 |-> <<"n">> \o SubSeq(rest, 2, n - 1),
             g2 |-> rest[n]]
       ELSE [matched |-> TRUE, g1 |-> SubSeq(rest, 1, n - 1), g2 |-> rest[n]]

\* Lines 1060-1077
FormServiceName(message) ==
    LET deployMatches == DeployMatches(message)
    IN IF deployMatches.matched THEN deployMatches.g1
       ELSE <<"Virtual", "Machine">>

\* Lines 1064-1071: csp after the match.
FormCsp(message, csp) ==
    LET deployMatches == DeployMatches(message)
    IN IF deployMatches.matched /\ csp = ""
       THEN ToLowerCase(deployMatches.g2) ELSE csp

\* Line 1079
FormCurrentCsp(all, message, userId, csp) ==
    LET given == FormCsp(message, csp)
    IN IF given # "" THEN given ELSE OrAws(all[userId].csp)

\* generateTemplateForService (lines 1234-1292)
generateTemplateForService(service) ==
    LET name == LowerText(service.name)
    IN IF ToLowerCase(service.cloud) = "aws" /\
          (Includes(name, <<"virtual", "machine">>) \/ Includes(name, <<"ec2">>))
       THEN <<"AWS::EC2::Instance">>
       ELSE IF ToLowerCase(service.cloud) = "aws" /\
               (Includes(name, <<"s3">>) \/ Includes(name, <<"bucket">>))
       THEN <<"AWS::S3::Bucket">>
       ELSE <<"service", "cloud", "properties">>

\* Lines 1082-1116: the reply of a deployment with form data.  deployService
\* (deploy.tool.ts 28-52) returns success and echoes the request.
DeploymentReply(all, message, userId, csp, fields) ==
    LET serviceName == FormServiceName(message)
        currentCSP == FormCurrentCsp(all, message, userId, csp)
        matchingService == findMatchingServiceByName(serviceName, currentCSP)
        template ==
            IF fields.template = <<>> /\ matchingService # Undefined
            THEN generateTemplateForService(matchingService)
            ELSE fields.template
        request ==
            [serviceName |-> IF matchingService # Undefined
                             THEN matchingService.name ELSE serviceName,
             csp |-> currentCSP, userId |-> userId,
             formData |-> fields.formData, template |-> template]
    IN [role |-> "assistant", workflow |-> "deployment",
        response |->
            [message |-> <<"Deployment of">> \o serviceName \o
                         <<"has been initiated successfully.">>,
             details |-> request,
             deploymentId |-> "bydbsybd72ygww280-2wju2",
             menu |-> getMenuForCSP(currentCSP, TRUE)]]

\* Lines 1197-1204
ErrorReply(userCSP) ==
    [role |-> "assistant", workflow |-> "error",
     response |->
        [message |-> <<"Sorry, I encountered an error processing your request. Please try again.">>,
         menu |-> getMenuForCSP(OrAws(userCSP), TRUE)]]

\* Lines 1176-1182: the final response with the menu of the final context.
WithMenu(finalResponse, csp) ==
    IF finalResponse # Undefined
    THEN [finalResponse EXCEPT
             !.response = [menu |-> getMenuForCSP(OrAws(csp), TRUE)] @@ @]
    ELSE finalResponse

\* What processMessage returns once the workflow has ended (lines 1174-1214).
FinalReply(ended, userCSP) ==
    IF ended.threw THEN ErrorReply(userCSP)
    ELSE WithMenu(ended.state.finalResponse, ended.state.csp)

----------------------------------------------------------------------------
(* What the environment sends and answers *)

Hi == <<"Hi">>
WhatIsEc2 == <<"what", "is", "EC2">>
DeployVmInAws == <<"deploy", "a", "Virtual", "Machine", "in", "AWS">>
DeployBucket == <<"deploy", "a", "Storage", "Bucket">>
HowManyQuestions == <<"how", "many", "questions", "have", "I", "asked">>
SelectAzure == <<"select", "Azure">>
ListSecurityGroups == <<"list", "Security", "Groups">>

NoFields == Undefined
FormData == [formData |-> <<"instanceType=t2.micro">>, template |-> <<>>]

Payload(service, csp, message, questionCount, resourceType) ==
    [service |-> service, csp |-> csp, message |-> message,
     questionCount |-> questionCount, resourceType |-> resourceType]

\* Parsed JSON: an object of the classification call.
Parsed(role, workflow, response, action) ==
    [role |-> role, workflow |-> workflow, response |-> response,
     action |-> action]

Json(value) == [kind |-> "json", value |-> value]
ActionJson(type, payload) == Json(Parsed("", "", Undefined, Action(type, payload)))
CompleteJson(workflow, response) ==
    Json(Parsed("assistant", workflow, response, Undefined))

LlmThrows == [kind |-> "throw"]
LlmText == [kind |-> "text", raw |-> <<"Sure!", "Here", "you", "go">>]
JsonNull == [kind |-> "json", value |-> [null |-> TRUE]]

AnAnswer == <<"EC2", "is", "a", "compute", "service">>

\* Answers of the classification call (findAction).
ClassifyNarrow ==
    { LlmThrows,
      ActionJson("GENERAL_RESPONSE", [EmptyPayload EXCEPT !.message = AnAnswer]),
      ActionJson("SELECT_CSP", [EmptyPayload EXCEPT !.csp = "Azure"]),
      ActionJson("DEPLOY", [EmptyPayload EXCEPT !.service = <<"virtual", "machine">>]),
      ActionJson("CONVERSATION_SUMMARY", EmptyPayload),
      ActionJson("LIST_RESOURCES",
          [EmptyPayload EXCEPT !.resourceType = <<"Security", "Groups">>]),
      ActionJson("DEPLOY", Undefined) }

ClassifyWide ==
    ClassifyNarrow \cup
    { LlmText, JsonNull,
      Json(Parsed("", "", Undefined, Undefined)),
      CompleteJson("selectCsp",
          [message |-> <<"You have selected", "AZURE">>, csp |-> "Azure",
           service |-> <<>>]),
      CompleteJson("conversationSummary",
          [message |-> <<"You have asked", "5", "questions so far.">>,
           csp |-> "", service |-> <<>>]),
      CompleteJson("generalResponse",
          [message |-> AnAnswer, csp |-> NonString, service |-> <<>>]),
      ActionJson("GENERAL_RESPONSE", [EmptyPayload EXCEPT !.csp = "GCP"]),
      ActionJson("GENERAL_RESPONSE", [EmptyPayload EXCEPT !.csp = NonString]),
      ActionJson("DEPLOY", [EmptyPayload EXCEPT !.service = <<"Kubernetes">>]),
      ActionJson("DEPLOY", [EmptyPayload EXCEPT !.service = <<"function">>]),
      ActionJson("DEPLOY", [EmptyPayload EXCEPT !.service = <<"">>]),
      ActionJson("LIST_RESOURCES", EmptyPayload),
      ActionJson("LIST_RESOURCES",
          [EmptyPayload EXCEPT !.resourceType = <<"Instances">>]),
      ActionJson("LIST_RESOURCES", Undefined),
      ActionJson("SELECT_CSP", EmptyPayload),
      ActionJson("VIEW_CSP_OPTIONS", EmptyPayload),
      ActionJson("CONVERSATION_SUMMARY",
          [EmptyPayload EXCEPT
              !.message = <<"You have asked", "5", "questions so far.">>,
              !.questionCount = 5]),
      ActionJson("CONVERSATION_SUMMARY", Undefined),
      ActionJson("CONFIGURE", EmptyPayload),
      ActionJson("RESTART", EmptyPayload),
      ActionJson("", Undefined) }

\* Parsed JSON: an object of the synthesis call, as the list of its
\* string-valued (or, with NonString, other) properties in order, and its
\* response property.
Object(entries, response) == [entries |-> entries, response |-> response]
Entry(key, value) == [key |-> key, value |-> value]

SynthJson(value) == [kind |-> "json", raw |-> <<"{...}">>, value |-> value]

\* Answers of the synthesis call (generateUnifiedResponse).
SynthesisNarrow ==
    { LlmThrows,
      SynthJson(Object(<<Entry("answer", AnAnswer)>>, Undefined)) }

SynthesisWide ==
    SynthesisNarrow \cup
    { LlmText,
      [kind |-> "json", raw |-> <<"null">>, value |-> [null |-> TRUE]],
      [kind |-> "json", raw |-> <<"5">>, value |-> [scalar |-> TRUE]],
      SynthJson(Object(<<Entry("answer", <<NonString>>)>>, Undefined)),
      SynthJson(Object(<<>>, [message |-> AnAnswer])),
      SynthJson(Object(<<Entry("count", <<NonString>>), Entry("text", AnAnswer)>>,
                       Undefined)),
      SynthJson(Object(<<>>, Undefined)),
      SynthJson(Object(<<Entry("role", <<"assistant">>),
                         Entry("workflow", <<"generalResponse">>)>>,
                       [message |-> AnAnswer,
                        menu |-> << <<"Ask me anything">> >>])) }

\* Answers of the example-value call (generateExampleValues).
ExampleValuesNarrow ==
    { LlmThrows,
      Json([fields |-> << [fieldId |-> "instanceName",
                           exampleValue |-> <<"web-1">>,
                           explanation |-> <<"a short name">>] >>]) }

ExampleValuesWide ==
    ExampleValuesNarrow \cup { LlmText, JsonNull, Json([note |-> <<"no list">>]) }

\* Results of listAWSSecurityGroups (lines 961-977), which catches its error.
Listed(text) == [kind |-> "listed", text |-> text]

Listings ==
    { Listed(<<"No security groups found.">>),
      Listed(<<"Here are your AWS security groups:", "1.", "default", "(ID:", "sg-1", ")">>),
      Listed(<<"Error retrieving security groups:", "CredentialsError">>) }

\* Outcomes of the read and of the write of conversations.json in one save.
Io(readOk, writeOk) == [readOk |-> readOk, writeOk |-> writeOk]
IoOutcomes == {Io(r, w) : r \in BOOLEAN, w \in BOOLEAN}

\* A stored reply and a stored history of the given human messages.
StoredReply(csp) ==
    Reply("generalResponse",
          [message |-> AnAnswer, service |-> <<>>, csp |-> csp,
           menu |-> getMenuIn(SampleCatalog, csp, TRUE)])

RECURSIVE StoredHistory(_, _)
StoredHistory(csp, messages) ==
    IF messages = <<>> THEN <<>>
    ELSE <<HumanEntry(Head(messages)), AssistantEntry(StoredReply(csp))>>
         \o StoredHistory(csp, Tail(messages))

\* Contents of conversations.json when the process starts.
StoredNarrow ==
    { NoConversations,
      ("u1" :> Conversation("gcp", StoredHistory("gcp", <<WhatIsEc2>>))) }

StoredWide ==
    StoredNarrow \cup
    { ("u1" :> Conversation("azure",
           StoredHistory("azure", <<WhatIsEc2, ListSecurityGroups, SelectAzure>>))),
      ("u1" :> Conversation("aws",
           StoredHistory("aws", <<WhatIsEc2, HowManyQuestions, WhatIsEc2>>)))
      @@ ("u2" :> Conversation("gcp", StoredHistory("gcp", <<Hi>>))) }

NarrowEnv ==
    [userIds |-> {"u1", ""},
     messages |-> {WhatIsEc2, HowManyQuestions},
     csps |-> {"", "Azure"},
     fields |-> {NoFields, FormData},
     classifications |-> ClassifyNarrow,
     syntheses |-> SynthesisNarrow,
     exampleValues |-> ExampleValuesNarrow,
     listings |-> {Listed(<<"No security groups found.">>)},
     io |-> IoOutcomes,
     catalogs |-> {SampleCatalog},
     stored |-> StoredNarrow]

\* Two users, one of them stored, and every outcome of the file accesses.
ConcurrentEnv ==
    [userIds |-> {"u1", "u2", ""},
     messages |-> {WhatIsEc2, HowManyQuestions},
     csps |-> {"", "Azure"},
     fields |-> {NoFields, FormData},
     classifications |->
         { LlmThrows,
           ActionJson("GENERAL_RESPONSE",
               [EmptyPayload EXCEPT !.message = AnAnswer]),
           ActionJson("DEPLOY",
               [EmptyPayload EXCEPT !.service = <<"virtual", "machine">>]),
           ActionJson("LIST_RESOURCES",
               [EmptyPayload EXCEPT !.resourceType = <<"Security", "Groups">>]) },
     syntheses |-> SynthesisNarrow,
     exampleValues |-> ExampleValuesNarrow,
     listings |-> {Listed(<<"No security groups found.">>)},
     io |-> IoOutcomes,
     catalogs |-> {SampleCatalog},
     stored |-> StoredNarrow]

WideEnv ==
    [userIds |-> {"u1", "u2", ""},
     messages |-> {Hi, WhatIsEc2, DeployVmInAws, DeployBucket, HowManyQuestions,
                   SelectAzure, ListSecurityGroups},
     csps |-> {"", "Azure", "gcp"},
     fields |-> {NoFields, FormData},
     classifications |-> ClassifyWide,
     syntheses |-> SynthesisWide,
     exampleValues |-> ExampleValuesWide,
     listings |-> Listings,
     io |-> IoOutcomes,
     catalogs |-> {SampleCatalog, Undefined},
     stored |-> StoredWide]

----------------------------------------------------------------------------
(* The requests: one processMessage call each *)

\* The locals of a processMessage call.  node is the state inside the
\* workflow; cloudState is the variable of processMessage, assigned when
\* workflow.invoke returns (line 1174).  rejected: the call threw (line 1034).
\* saved and reread: the write, and the re-read, of the save at the end of the
\* turn succeeded.
\* classified and resolved: what llm.invoke did in findAction, and the state
\* findAction returned.  exampled and synthesized: what llm.invoke did in
\* generateExampleValues and in generateUnifiedResponse.  listed: what
\* listAWSSecurityGroups returned.  isNew: the call
\* created the user's conversation (lines 1063 and 1149).  stale: the stored
\* record of the user was behind the one in memory when the call started.
\* seen: the length of the user's history when the call started.  stages: the
\* methods of the workflow the call has entered, in order.  executed: the state
\* processAction returned to the workflow.  sent: the messages findAction
\* handed to llm.invoke.  awaited: the external calls of the turn that have
\* returned or thrown, in order.
IdleTurn ==
    [userId |-> "", message |-> <<>>, csp |-> "", fields |-> NoFields,
     userCSP |-> "", cloudState |-> Undefined, node |-> Undefined,
     classified |-> NoCall, resolved |-> Undefined,
     exampled |-> NoCall, synthesized |-> NoCall, listed |-> NoCall,
     isNew |-> FALSE, stale |-> FALSE, seen |-> 0, stages |-> <<>>,
     executed |-> Undefined, sent |-> <<>>, awaited |-> <<>>,
     reply |-> Undefined, rejected |-> FALSE, saved |-> FALSE,
     reread |-> FALSE]

\* The entries the user's history holds, 0 without conversation.
SeenLength(all, userId) ==
    IF userId \in DOMAIN all THEN Len(all[userId].history) ELSE 0

\* The stored record of userId is not the serialization of the one in memory.
IsStale(stored, all, userId) ==
    /\ userId \in DOMAIN all
    /\ \/ userId \notin DOMAIN stored
       \/ stored[userId] # Stringify(all[userId])

HistoryOf(all, userId) == all[userId].history

\* generateConversationHistory (lines 314-333): human entries as human
\* messages, assistant entries as AI messages whose text is JSON.stringify of
\* an object content and String of any other; other roles are left out.
generateConversationHistory(history) ==
    LET HasRole(msg) == msg.role \in {"human", "assistant"}
        Message(msg) ==
            IF msg.role = "human"
            THEN [type |-> "human", content |-> msg.content]
            ELSE [type |-> "ai",
                  text |-> IF "reply" \in DOMAIN msg /\ msg.reply # Undefined
                           THEN [stringified |-> msg.reply]
                           ELSE [string |-> "undefined"]]
    IN Map(SelectSeq(history, HasRole), Message)

\* messagePayload of findAction (lines 182-187); conversationHistory is the
\* user's history array itself.
messagePayload(conversationHistory, query) ==
    <<[type |-> "system"]>> \o
    generateConversationHistory(conversationHistory) \o
    <<[type |-> "human", content |-> query]>>

\* A workflow whose last node has no edge to END: it stays inside
\* processAction.
StoppedInside(at, outcome) ==
    [at |-> IF at = "end" THEN "processAction" ELSE at,
     threw |-> outcome.threw, state |-> outcome.state,
     entered |-> <<>>, executed |-> Undefined]

\* The workflow (lines 82-92) from the end of findAction up to its next
\* external call: where it stops ("end" when it is over), in what state,
\* whether a node threw, and the methods it entered on the way.
Stopped(at, outcome) ==
    [at |-> at, threw |-> outcome.threw, state |-> outcome.state,
     entered |-> <<>>, executed |-> Undefined]

\* The state processAction returned, once it has.
Executed(executed, stopped) ==
    IF stopped.executed = Undefined THEN executed ELSE stopped.executed

\* processAction returned: generateUnifiedResponse is entered (line 90), and
\* it enters processAction again when it corrects the action (line 638).
AfterProcessAction(outcome, history) ==
    IF outcome.threw THEN Stopped("end", outcome)
    ELSE IF CallsSynthesis(outcome.state)
    THEN [Stopped("generateUnifiedResponse", outcome)
             EXCEPT !.entered = <<"generateUnifiedResponse">>,
                    !.executed = outcome.state]
    ELSE [Stopped("end", generateUnifiedResponse(outcome.state, history, NoCall))
             EXCEPT !.entered =
                 IF Reclassifies(outcome.state)
                 THEN <<"generateUnifiedResponse", "processAction">>
                 ELSE <<"generateUnifiedResponse">>,
                    !.executed = outcome.state]

\* findAction returned: processAction is entered (line 89).
AfterFindAction(cloudState, history) ==
    LET next ==
            IF CallsExampleValues(cloudState)
            THEN Stopped("generateExampleValues", Returned(cloudState))
            ELSE IF CallsListResources(cloudState)
            THEN Stopped("listAWSSecurityGroups", Returned(cloudState))
            ELSE AfterProcessAction(
                     processAction(cloudState, history, NoCall), history)
    IN [next EXCEPT !.entered = <<"processAction">> \o @]

\* One request at a time unless the environment sends them concurrently.
MayStart(p) ==
    /\ pc[p] = "idle"
    /\ turnsLeft > 0
    /\ env.concurrent \/ \A q \in Procs : pc[q] = "idle"
    /\ \A q \in Procs : pc[q] = "idle" => p <= q

\* The userId checked after the form-data branch has created the conversation
\* and pushed the human entry.
RejectAfterPush(p) ==
    /\ MayStart(p)
    /\ "" \in env.userIds
    /\ \E message \in env.messages, csp \in env.csps, fields \in env.fields :
          /\ turn' = [turn EXCEPT ![p] =
                         [IdleTurn EXCEPT !.message = message, !.csp = csp,
                                          !.fields = fields, !.rejected = TRUE]]
          /\ conversations' =
                 IF fields = NoFields THEN conversations
                 ELSE Push(IF "" \in DOMAIN conversations THEN conversations
                           ELSE Put(conversations, "",
                                    Conversation(OrAws(ToLowerCase(csp)), <<>>)),
                           "", HumanEntry(message))
    /\ pc' = [pc EXCEPT ![p] = "returned"]
    /\ turnsLeft' = turnsLeft - 1
    /\ UNCHANGED <<servicesData, file, env>>
    /\ UNCHANGED <<orderStore, domainCart, orderPc, orderTurn, ordersLeft>>

\* Lines 1033-1035: a request without userId is rejected.
RejectRequest(p) ==
    /\ MayStart(p)
    /\ "" \in env.userIds
    /\ \E message \in env.messages, csp \in env.csps, fields \in env.fields :
          turn' = [turn EXCEPT ![p] =
                      [IdleTurn EXCEPT !.message = message, !.csp = csp,
                                       !.fields = fields, !.rejected = TRUE]]
    /\ pc' = [pc EXCEPT ![p] = "returned"]
    /\ turnsLeft' = turnsLeft - 1
    /\ UNCHANGED <<servicesData, conversations, file, env>>
    /\ UNCHANGED <<orderStore, domainCart, orderPc, orderTurn, ordersLeft>>

\* Lines 1041-1096: a deployment with form data, up to the deployService call.
ReceiveFormData(p) ==
    /\ MayStart(p)
    /\ \E userId \in env.userIds \ {""}, message \in env.messages,
          csp \in env.csps, fields \in env.fields \ {NoFields} :
          LET created ==
                  IF userId \in DOMAIN conversations THEN conversations
                  ELSE Put(conversations, userId,
                           Conversation(OrAws(ToLowerCase(csp)), <<>>))
          IN /\ conversations' = Push(created, userId, HumanEntry(message))
             /\ turn' = [turn EXCEPT ![p] =
                           [IdleTurn EXCEPT
                               !.userId = userId, !.message = message,
                               !.csp = csp, !.fields = fields,
                               !.isNew = userId \notin DOMAIN conversations,
                               !.stale = IsStale(file, conversations, userId),
                               !.seen = SeenLength(conversations, userId),
                               !.userCSP =
                                   FormCurrentCsp(created, message, userId, csp)]]
    /\ pc' = [pc EXCEPT ![p] = "deployService"]
    /\ turnsLeft' = turnsLeft - 1
    /\ UNCHANGED <<servicesData, file, env>>
    /\ UNCHANGED <<orderStore, domainCart, orderPc, orderTurn, ordersLeft>>

\* Lines 1104-1127: deployService returned.
DeployServiceReturns(p) ==
    /\ pc[p] = "deployService"
    /\ \E io \in env.io :
          \E reply \in {DeploymentReply(conversations, turn[p].message,
                                       turn[p].userId, turn[p].csp,
                                       turn[p].fields)} :
          \E all \in {Push(conversations, turn[p].userId, AssistantEntry(reply))} :
             /\ conversations' = all
             /\ file' = saveUserConversation(file, turn[p].userId,
                                             all[turn[p].userId], io)
             /\ turn' = [turn EXCEPT ![p].reply = reply,
                                     ![p].awaited = <<"deployment", "save">>,
                                     ![p].saved = io.writeOk,
                                     ![p].reread = io.readOk]
    /\ pc' = [pc EXCEPT ![p] = "returned"]
    /\ UNCHANGED <<servicesData, env, turnsLeft>>
    /\ UNCHANGED <<orderStore, domainCart, orderPc, orderTurn, ordersLeft>>

\* Lines 1130-1174: a message, up to the text-generation call of findAction.
ReceiveMessage(p) ==
    /\ MayStart(p)
    /\ \E userId \in env.userIds \ {""}, message \in env.messages,
          csp \in env.csps :
          LET userCSP == ResolveCsp(conversations, message, userId, csp)
              created ==
                  IF userId \in DOMAIN conversations THEN conversations
                  ELSE Put(conversations, userId, Conversation(userCSP, <<>>))
              cloudState == InitialCloudState(message, userCSP)
              pushed == Push(created, userId, HumanEntry(message))
          IN /\ conversations' = pushed
             /\ turn' = [turn EXCEPT ![p] =
                           [IdleTurn EXCEPT
                               !.userId = userId, !.message = message,
                               !.sent = messagePayload(
                                            HistoryOf(pushed, userId), message),
                               !.csp = csp, !.userCSP = userCSP,
                               !.isNew = userId \notin DOMAIN conversations,
                               !.stale = IsStale(file, conversations, userId),
                               !.seen = SeenLength(conversations, userId),
                               !.stages = <<"findAction">>,
                               !.cloudState = cloudState, !.node = cloudState]]
    /\ pc' = [pc EXCEPT ![p] = "findAction"]
    /\ turnsLeft' = turnsLeft - 1
    /\ UNCHANGED <<servicesData, file, env>>
    /\ UNCHANGED <<orderStore, domainCart, orderPc, orderTurn, ordersLeft>>

\* A turn that ends on the history as it was when the turn started: its own
\* two entries follow the entries it saw then.
ProceedOnSnapshot(p, t, stopped, io) ==
    IF stopped.at # "end"
    THEN /\ pc' = [pc EXCEPT ![p] = stopped.at]
         /\ turn' = [turn EXCEPT ![p] =
                       [t EXCEPT !.node = stopped.state,
                                 !.stages = @ \o stopped.entered,
                                 !.executed = Executed(@, stopped)]]
         /\ UNCHANGED <<conversations, file>>
    ELSE \E reply \in {FinalReply(stopped, t.userCSP)} :
         \E all \in {[conversations EXCEPT ![t.userId].history =
                          SubSeq(@, 1, t.seen) \o
                          <<HumanEntry(t.message), AssistantEntry(reply)>>]} :
            /\ conversations' = all
            /\ file' = saveUserConversation(file, t.userId, all[t.userId], io)
            /\ pc' = [pc EXCEPT ![p] = "returned"]
            /\ turn' = [turn EXCEPT ![p] =
                          [t EXCEPT
                              !.node = stopped.state,
                              !.stages = @ \o stopped.entered,
                              !.executed = Executed(@, stopped),
                              !.cloudState =
                                  IF stopped.threw THEN @ ELSE stopped.state,
                              !.reply = reply,
                              !.awaited = Append(@, "save"),
                              !.saved = io.writeOk,
                              !.reread = io.readOk]]

\* The workflow went on to `stopped`: it waits for its next external call, or
\* it is over and processMessage ends the turn (lines 1174-1214).
Proceed(p, t, stopped, io) ==
    IF stopped.at # "end"
    THEN /\ pc' = [pc EXCEPT ![p] = stopped.at]
         /\ turn' = [turn EXCEPT ![p] =
                       [t EXCEPT !.node = stopped.state,
                                 !.stages = @ \o stopped.entered,
                                 !.executed = Executed(@, stopped)]]
         /\ UNCHANGED <<conversations, file>>
    ELSE \E reply \in {FinalReply(stopped, t.userCSP)} :
         \E all \in {Push(conversations, t.userId, AssistantEntry(reply))} :
            /\ conversations' = all
            /\ file' = saveUserConversation(file, t.userId, all[t.userId], io)
            /\ pc' = [pc EXCEPT ![p] = "returned"]
            /\ turn' = [turn EXCEPT ![p] =
                          [t EXCEPT
                              !.node = stopped.state,
                              !.stages = @ \o stopped.entered,
                              !.executed = Executed(@, stopped),
                              !.cloudState =
                                  IF stopped.threw THEN @ ELSE stopped.state,
                              !.reply = reply,
                              !.awaited = Append(@, "save"),
                              !.saved = io.writeOk,
                              !.reread = io.readOk]]

\* The text-generation call of findAction returned or threw.
FindActionReturns(p) ==
    /\ pc[p] = "findAction"
    /\ \E llm \in env.classifications, io \in env.io :
          \E resolved \in {findAction(turn[p].node, llm)} :
          \E stopped \in {AfterFindAction(resolved,
                               HistoryOf(conversations, turn[p].userId))} :
             Proceed(p, [turn[p] EXCEPT !.classified = llm,
                                        !.awaited = Append(@, "classification"),
                                        !.resolved = resolved],
                     stopped, io)
    /\ UNCHANGED <<servicesData, env, turnsLeft>>
    /\ UNCHANGED <<orderStore, domainCart, orderPc, orderTurn, ordersLeft>>

\* The text-generation call of generateExampleValues returned or threw.
ExampleValuesReturn(p) ==
    /\ pc[p] = "generateExampleValues"
    /\ \E llm \in env.exampleValues, io \in env.io :
          \E history \in {HistoryOf(conversations, turn[p].userId)} :
          \E outcome \in {processAction(turn[p].node, history, llm)} :
          \E stopped \in {AfterProcessAction(outcome, history)} :
             Proceed(p, [turn[p] EXCEPT !.exampled = llm,
                                        !.awaited = Append(@, "examples")],
                     stopped, io)
    /\ UNCHANGED <<servicesData, env, turnsLeft>>
    /\ UNCHANGED <<orderStore, domainCart, orderPc, orderTurn, ordersLeft>>

\* listAWSSecurityGroups returned.
ListResourcesReturns(p) ==
    /\ pc[p] = "listAWSSecurityGroups"
    /\ \E listed \in env.listings, io \in env.io :
          \E history \in {HistoryOf(conversations, turn[p].userId)} :
          \E outcome \in {processAction(turn[p].node, history, listed)} :
          \E stopped \in {AfterProcessAction(outcome, history)} :
             Proceed(p, [turn[p] EXCEPT !.listed = listed,
                                        !.awaited = Append(@, "listing")],
                     stopped, io)
    /\ UNCHANGED <<servicesData, env, turnsLeft>>
    /\ UNCHANGED <<orderStore, domainCart, orderPc, orderTurn, ordersLeft>>

\* The text-generation call of generateUnifiedResponse returned or threw.
SynthesisReturns(p) ==
    /\ pc[p] = "generateUnifiedResponse"
    /\ \E llm \in env.syntheses, io \in env.io :
          \E history \in {HistoryOf(conversations, turn[p].userId)} :
          \E outcome \in {generateUnifiedResponse(turn[p].node, history, llm)} :
             Proceed(p, [turn[p] EXCEPT !.synthesized = llm,
                                        !.awaited = Append(@, "synthesis")],
                     Stopped("end", outcome), io)
    /\ UNCHANGED <<servicesData, env, turnsLeft>>
    /\ UNCHANGED <<orderStore, domainCart, orderPc, orderTurn, ordersLeft>>

\* The caller has the reply (or the error); the request slot is free again.
Respond(p) ==
    /\ pc[p] = "returned"
    /\ pc' = [pc EXCEPT ![p] = "idle"]
    /\ turn' = [turn EXCEPT ![p] = IdleTurn]
    /\ UNCHANGED <<servicesData, conversations, file, env, turnsLeft>>
    /\ UNCHANGED <<orderStore, domainCart, orderPc, orderTurn, ordersLeft>>

----------------------------------------------------------------------------
(* OrderBotService (order-bot.service.txt): the order executor.  The cart
   API, the order API and the conversation service are outside the source;
   the model gives each call the results the code tells apart: a mutation
   answers truthy or falsy, a cart read answers a cart or nothing.  The menu
   and restaurant views of processAction are left out. *)

\* Turns the environment sends to the order bot in one behaviour of SpecOrder.
MaxOrders == 2

\* An empty domain cart: item -> quantity.
EmptyCart == [id \in {"i1", "i2"} |-> 0]

\* The default of GraphState.orderState (lines 35-45), with the properties
\* the workflow adds later.
DefaultOrderState ==
    [cartItems |-> <<>>, totalPrice |-> 0, conversationHistory |-> <<>>,
     menuItems |-> <<>>, query |-> <<>>, userId |-> "", sessionId |-> "",
     action |-> Undefined, event |-> "", customAiMessageContent |-> <<>>,
     pendingItemId |-> "", confirmed |-> FALSE, answer |-> <<>>]

\* getCartByUserId({ userId }): the cart with its lines, or nothing.
getCartByUserId(cart, out) ==
    IF out.cart = "null" THEN Undefined
    ELSE LET Line(id) == [id |-> id, price |-> IF id = "i1" THEN 5 ELSE 7,
                          quantity |-> cart[id]]
             Held(line) == line.quantity > 0
         IN [items |-> SelectSeq(Map(<<"i1", "i2">>, Line), Held)]

\* The cart after addToCart({ itemId, quantity, userId }) answered truthy, or
\* after removeFromCart({ itemId, userId }) did, with quantity 0.
CartWith(cart, itemId, quantity) ==
    IF itemId \in DOMAIN cart THEN [cart EXCEPT ![itemId] = quantity] ELSE cart

\* (cart?.items || []).reduce((sum, i) => sum + (i?.price * i?.quantity), 0)
RECURSIVE TotalPrice(_)
TotalPrice(items) ==
    IF items = <<>> THEN 0
    ELSE Head(items).price * Head(items).quantity + TotalPrice(Tail(items))

\* The fixed messages of the cart branches (lines 364, 370, 389, 412, 417).
CartApology(type) ==
    CASE type = "ADD_ITEM" ->
             <<"Sorry, we couldn't add the item to your cart, please try again">>
      [] type = "REMOVE_ITEM" ->
             <<"Sorry, we couldn't remove the item from your cart, please try again">>
      [] OTHER ->
             <<"Sorry, we couldn't update the quantity of the item in your cart, please try again">>

\* The cart call that reads the snapshot again and keeps the old total.
CartCallKeepingTotal(run, cart, out) ==
    IF out.cart # "failed"
    THEN LET read == getCartByUserId(cart, out)
             items == IF read = Undefined THEN <<>> ELSE read.items
         IN [run EXCEPT !.cart = cart,
                        !.state = [@ EXCEPT !.cartItems = items,
                                            !.event = "cartUpdated"],
                        !.calls = @ + 2, !.mutated = @ + 1, !.failed = FALSE]
    ELSE [run EXCEPT !.state.event = "cartFailed",
                     !.message = CartApology(run.state.action.type),
                     !.calls = @ + 1, !.failed = TRUE]

\* The cart call of one iteration (lines 352-366, 377-390, 400-413): it
\* changed the cart to `cart` and the snapshot is read again, or it answered
\* falsy.  A run of processAction is its updatedState, the domain cart, the
\* message (customAiMessageContent), the calls made to the domain services,
\* how many of them changed the cart, whether the last iteration took a
\* failure branch, and whether the conversation state was cleared.
CartCall(run, cart, out) ==
    IF out.cart # "failed"
    THEN LET read == getCartByUserId(cart, out)
             items == IF read = Undefined THEN <<>> ELSE read.items
         IN [run EXCEPT !.cart = cart,
                        !.state = [@ EXCEPT !.cartItems = items,
                                            !.totalPrice = TotalPrice(items),
                                            !.event = "cartUpdated"],
                        !.calls = @ + 2, !.mutated = @ + 1, !.failed = FALSE]
    ELSE [run EXCEPT !.state.event = "cartFailed",
                     !.message = CartApology(run.state.action.type),
                     !.calls = @ + 1, !.failed = TRUE]

\* One iteration of the loop of ADD_ITEM (lines 345-371), REMOVE_ITEM (lines
\* 376-394) or SET_QUANTITY (lines 399-418).
CartStep(run, itemId, payload, out) ==
    LET type == run.state.action.type
        variationId ==
            IF "variationId" \in DOMAIN payload THEN payload.variationId ELSE ""
        finalItemId == IF variationId # "" THEN variationId ELSE itemId
        given == IF "quantity" \in DOMAIN payload THEN payload.quantity ELSE 0
        looked == [run EXCEPT !.calls = @ + 1]   \* utilsService.findMenuItem
        Failed(r) == [r EXCEPT !.state.event = "cartFailed",
                               !.message = CartApology(type), !.failed = TRUE]
    IN CASE type = "ADD_ITEM" ->
                IF out.found = "missing" THEN Failed(looked)
                ELSE IF out.found = "variants" /\ finalItemId = ""
                THEN [looked EXCEPT !.message = <<"please select a variation">>,
                                    !.state.pendingItemId = itemId,
                                    !.failed = FALSE]
                ELSE CartCall(looked,
                         CartWith(run.cart, finalItemId,
                                  IF given = 0 THEN 1 ELSE given), out)
         [] type = "REMOVE_ITEM" ->
                IF itemId # ""
                THEN CartCall(run, CartWith(run.cart, itemId, 0), out)
                ELSE [run EXCEPT !.state.event = "cartFailed", !.failed = TRUE]
         [] OTHER ->
                IF itemId # "" /\ given # 0
                THEN CartCall(run, CartWith(run.cart, itemId, given), out)
                ELSE Failed(run)

\* for (const itemId of itemIds), lines 344, 375 and 398; outs are the
\* answers of the calls of each iteration.
RECURSIVE ForEachItem(_, _, _, _)
ForEachItem(run, itemIds, payload, outs) ==
    IF itemIds = <<>> THEN run
    ELSE ForEachItem(CartStep(run, Head(itemIds), payload, Head(outs)),
                     Tail(itemIds), payload, Tail(outs))

\* PROCESS_ORDER that marks the order as placed and keeps the snapshot.
ProcessOrderKeepingCart(run, out) ==
    IF out.cart # "failed"
    THEN [run EXCEPT
             !.state = [@ EXCEPT !.confirmed = TRUE, !.event = "orderPlaced"],
             !.cart = EmptyCart, !.calls = @ + 1, !.cleared = TRUE,
             !.message =
                 <<"Your order has been placed successfully,Thank you for choosing us">>]
    ELSE [run EXCEPT
             !.state.event = "orderFailed", !.calls = @ + 1, !.failed = TRUE,
             !.message = <<"Sorry, we couldn't process your order, please try again">>]

\* PROCESS_ORDER (lines 420-443): createOrder, which empties the domain cart
\* when it succeeds.
ProcessOrder(run, out) ==
    IF out.cart # "failed"
    THEN [run EXCEPT
             !.state = [@ EXCEPT !.confirmed = TRUE, !.cartItems = <<>>,
                                 !.totalPrice = 0, !.pendingItemId = "",
                                 !.event = "orderPlaced"],
             !.cart = EmptyCart, !.calls = @ + 1, !.cleared = TRUE,
             !.message =
                 <<"Your order has been placed successfully,Thank you for choosing us">>]
    ELSE [run EXCEPT
             !.state.event = "orderFailed", !.calls = @ + 1, !.failed = TRUE,
             !.message = <<"Sorry, we couldn't process your order, please try again">>]

\* CANCEL_ORDER that also empties the cart of the cart API and forgets the
\* conversation.
CancelOrderEverywhere(run) ==
    [run EXCEPT
        !.state = [@ EXCEPT !.cartItems = <<>>, !.totalPrice = 0,
                            !.confirmed = FALSE, !.pendingItemId = "",
                            !.conversationHistory = <<>>],
        !.cart = EmptyCart, !.calls = @ + 1,
        !.message = <<"Your order has been cancelled.">>]

\* CANCEL_ORDER (lines 444-452)
CancelOrder(run) ==
    [run EXCEPT
        !.state = [@ EXCEPT !.cartItems = <<>>, !.totalPrice = 0,
                            !.confirmed = FALSE, !.pendingItemId = ""],
        !.message = <<"Your order has been cancelled.">>]

\* processAction of the order workflow (lines 333-539).  `for ... of` throws
\* a TypeError when the payload has no itemIds.
OrderProcessAction(orderState, cart, outs) ==
    LET action == orderState.action
        type == IF action = Undefined THEN "" ELSE action.type
        payload == IF action = Undefined THEN Undefined ELSE action.payload
        run == [state |-> orderState, cart |-> cart, message |-> <<>>,
                calls |-> 0, mutated |-> 0, failed |-> FALSE,
                threw |-> FALSE, cleared |-> FALSE]
        read == getCartByUserId(cart, Head(outs))
        viewed ==   \* VIEW_CART (lines 493-504)
            IF read # Undefined /\ read.items # <<>>
            THEN [run EXCEPT !.state.cartItems = read.items,
                             !.state.totalPrice = TotalPrice(read.items),
                             !.calls = @ + 1]
            ELSE [run EXCEPT
                     !.state.event = "cartEmpty",
                     !.state.cartItems = <<>>, !.state.totalPrice = 0,
                     !.calls = @ + 1,
                     !.message =
                         <<"Your cart is empty, add some items to your cart to continue">>]
        done ==
            CASE type \in {"ADD_ITEM", "REMOVE_ITEM", "SET_QUANTITY"} ->
                     IF "itemIds" \in DOMAIN payload
                     THEN ForEachItem(run, payload.itemIds, payload, outs)
                     ELSE [run EXCEPT !.threw = TRUE]
              [] type = "PROCESS_ORDER" -> ProcessOrder(run, Head(outs))
              [] type = "CANCEL_ORDER" -> CancelOrder(run)
              [] type = "VIEW_CART" -> viewed
              [] OTHER -> run
    IN IF done.threw THEN done
       ELSE [done EXCEPT !.state.customAiMessageContent = done.message,
                         !.state.menuItems = <<>>]

\* generateUnifiedResponse of the order workflow (lines 542-776); of the
\* stringified reply the model keeps the answer.
OrderUnifiedResponse(orderState, llm) ==
    LET custom == orderState.customAiMessageContent
        Answered(answer) ==
            [threw |-> FALSE, messages |-> answer,
             state |-> [orderState EXCEPT
                           !.conversationHistory =
                               @ \o << [role |-> "human",
                                        content |-> orderState.query],
                                       [role |-> "ai", content |-> answer] >>,
                           !.answer = answer]]
    IN IF custom # <<>> THEN Answered(custom)
       ELSE IF llm.kind = "throw"
       THEN [threw |-> TRUE, messages |-> <<>>, state |-> orderState]
       ELSE IF llm.kind = "text"
       THEN [threw |-> FALSE, state |-> orderState,
             messages |-> <<"I'm sorry, I couldn't process your request.">>]
       ELSE Answered(IF "answer" \in DOMAIN llm.value
                     THEN llm.value.answer ELSE <<>>)

\* What a call of processOrderWithLocation has done: its input, the state
\* before and after processAction, what processAction did, and how the call
\* ended.  unparsed: the answer of findAction's call was no JSON.
IdleOrder ==
    [input |-> <<>>, before |-> Undefined, after |-> Undefined, calls |-> 0,
     mutated |-> 0, failed |-> FALSE, threw |-> FALSE, saved |-> FALSE,
     unparsed |-> FALSE, messages |-> <<>>]

\* The catch of processOrderWithLocation (lines 876-883): nothing is saved.
OrderCaught(t) ==
    [t EXCEPT !.threw = TRUE,
              !.messages =
                  <<"Sorry, there was an error processing your order. Please try again.">>]

\* Answers of the classification call of findAction (lines 307-329).
OrderClassifications ==
    { LlmThrows, LlmText, Json([note |-> <<"no action">>]) } \cup
    { Json([action |-> [type |-> "ADD_ITEM", payload |-> payload]]) :
        payload \in { [itemIds |-> <<"i1">>],
                      [itemIds |-> <<"i1", "i2">>, quantity |-> 2],
                      [itemIds |-> <<"">>],
                      [itemIds |-> <<"i1">>, variationId |-> "i2"],
                      [quantity |-> 1] } } \cup
    { Json([action |-> [type |-> "REMOVE_ITEM", payload |-> payload]]) :
        payload \in { [itemIds |-> <<"i1">>], [itemIds |-> <<"i1", "i2">>],
                      [itemIds |-> <<"">>], Undefined } } \cup
    { Json([action |-> [type |-> "SET_QUANTITY", payload |-> payload]]) :
        payload \in { [itemIds |-> <<"i1">>, quantity |-> 2],
                      [itemIds |-> <<"i2", "">>, quantity |-> 1],
                      [itemIds |-> <<"i1">>], [quantity |-> 2] } } \cup
    { Json([action |-> [type |-> type, payload |-> Undefined]]) :
        type \in {"PROCESS_ORDER", "CANCEL_ORDER", "VIEW_CART",
                  "GENERAL_INQUIRY"} }

\* The answers processAction may get for the action of orderState, one for
\* each of at most two iterations: those of findMenuItem and of the cart or
\* order call.
OrderOutcomes(orderState) ==
    LET type == IF orderState.action = Undefined THEN ""
                ELSE orderState.action.type
        calls == {[found |-> "plain", cart |-> c] : c \in {"failed", "null", "ok"}}
        each == CASE type = "ADD_ITEM" ->
                         calls \cup {[found |-> "missing", cart |-> "failed"],
                                     [found |-> "variants", cart |-> "ok"]}
                  [] type \in {"REMOVE_ITEM", "SET_QUANTITY", "PROCESS_ORDER",
                               "VIEW_CART"} -> calls
                  [] OTHER -> {[found |-> "plain", cart |-> "ok"]}
    IN {<<a, b>> : a \in each, b \in each}

\* processOrderWithLocation up to processAction (lines 813-849, 50-330):
\* the stored state is read, analyzeInput sets the query, findAction sets the
\* action, or keeps the stored one when its answer does not parse.
OrderReceive ==
    /\ orderPc \in {"idle", "done"}
    /\ ordersLeft > 0
    /\ ordersLeft' = ordersLeft - 1
    /\ \E userInput \in {<<>>, <<"update my cart">>}, userId \in {"", "u1"},
          llm \in OrderClassifications :
          IF userInput = <<>>
          THEN /\ orderPc' = "done"
               /\ orderTurn' =
                      [IdleOrder EXCEPT
                          !.messages =
                              <<"Please provide a query to search for food items.">>]
          ELSE LET existing ==   \* conversationService.getOrderState
                       IF orderStore = Undefined
                       THEN DefaultOrderState ELSE orderStore
                   identified ==
                       IF userId # ""
                       THEN [existing EXCEPT !.userId = userId, !.sessionId = "s1"]
                       ELSE existing
                   analyzed == [identified EXCEPT !.query = userInput]
                   resolved ==
                       IF llm.kind = "json"
                       THEN [analyzed EXCEPT
                                !.action = IF "action" \in DOMAIN llm.value
                                           THEN llm.value.action ELSE Undefined]
                       ELSE analyzed
               IN IF llm.kind = "throw"
                  THEN /\ orderPc' = "done"
                       /\ orderTurn' =
                              OrderCaught([IdleOrder EXCEPT !.input = userInput])
                  ELSE /\ orderPc' = "processAction"
                       /\ orderTurn' = [IdleOrder EXCEPT !.input = userInput,
                                                         !.unparsed = llm.kind = "text",
                                                         !.before = resolved]
    /\ UNCHANGED <<orderStore, domainCart>>
    /\ UNCHANGED <<servicesData, conversations, file, pc, turn, env, turnsLeft>>

\* processAction ran, with the answers of its calls.
OrderExecute ==
    /\ orderPc = "processAction"
    /\ \E outs \in OrderOutcomes(orderTurn.before) :
          \E run \in {OrderProcessAction(orderTurn.before, domainCart, outs)} :
             /\ domainCart' = run.cart
             /\ orderStore' = IF run.cleared THEN Undefined ELSE orderStore
             /\ IF run.threw
                THEN /\ orderPc' = "done"
                     /\ orderTurn' = OrderCaught(orderTurn)
                ELSE /\ orderPc' = "generateUnifiedResponse"
                     /\ orderTurn' = [orderTurn EXCEPT !.after = run.state,
                                                       !.calls = run.calls,
                                                       !.mutated = run.mutated,
                                                       !.failed = run.failed]
    /\ UNCHANGED ordersLeft
    /\ UNCHANGED <<servicesData, conversations, file, pc, turn, env, turnsLeft>>

\* generateUnifiedResponse ran and the final state is saved (lines 851-875).
OrderRespond ==
    /\ orderPc = "generateUnifiedResponse"
    /\ \E llm \in {LlmThrows, LlmText, Json([answer |-> <<"Here is what I found">>])} :
          \E out \in {OrderUnifiedResponse(orderTurn.after, llm)} :
             IF out.threw
             THEN /\ orderTurn' = OrderCaught(orderTurn)
                  /\ UNCHANGED orderStore
             ELSE /\ orderTurn' = [orderTurn EXCEPT !.saved = TRUE,
                                                    !.messages = out.messages]
                  /\ orderStore' = out.state
    /\ orderPc' = "done"
    /\ UNCHANGED <<domainCart, ordersLeft>>
    /\ UNCHANGED <<servicesData, conversations, file, pc, turn, env, turnsLeft>>

----------------------------------------------------------------------------
(* Specifications *)

\* The state after the constructor (lines 48-93): the catalog and every
\* stored conversation are loaded.  No call of processOrderWithLocation is
\* made.
Start(e, turns) ==
    /\ orderStore = Undefined
    /\ domainCart = EmptyCart
    /\ orderPc = "idle"
    /\ orderTurn = IdleOrder
    /\ ordersLeft = 0
    /\ env = e
    /\ servicesData \in e.catalogs
    /\ file \in e.stored
    /\ conversations = file
    /\ pc = [p \in Procs |-> "idle"]
    /\ turn = [p \in Procs |-> IdleTurn]
    /\ turnsLeft = turns

Sequential(e) == [concurrent |-> FALSE] @@ e

\* processMessage is async: a second request may start while the first waits
\* at an await.
Concurrent(e) == [concurrent |-> TRUE] @@ e

Init == Start(Sequential(NarrowEnv), MaxTurns)

InitTurn == Start(Sequential(WideEnv), 1)

\* One request for each of the processes.
InitConcurrent == Start(Concurrent(ConcurrentEnv), Cardinality(Procs))

\* The order bot alone: no conversation stored, the cart of the user empty
\* or holding one item.
InitOrder ==
    /\ env = Sequential(NarrowEnv)
    /\ servicesData = SampleCatalog
    /\ file = NoConversations
    /\ conversations = file
    /\ pc = [p \in Procs |-> "idle"]
    /\ turn = [p \in Procs |-> IdleTurn]
    /\ turnsLeft = 0
    /\ orderStore = Undefined
    /\ domainCart \in {EmptyCart, [EmptyCart EXCEPT !["i1"] = 1]}
    /\ orderPc = "idle"
    /\ orderTurn = IdleOrder
    /\ ordersLeft = MaxOrders

Next ==
    \E p \in Procs :
        \/ RejectRequest(p)
        \/ ReceiveFormData(p)
        \/ DeployServiceReturns(p)
        \/ ReceiveMessage(p)
        \/ FindActionReturns(p)
        \/ ExampleValuesReturn(p)
        \/ ListResourcesReturns(p)
        \/ SynthesisReturns(p)
        \/ Respond(p)

\* Turns one after another, the environment drawing from NarrowEnv.
Spec == Init /\ [][Next]_vars

\* One turn, the environment drawing from WideEnv.
SpecTurn == InitTurn /\ [][Next]_vars

\* Two requests that may overlap, the environment drawing from ConcurrentEnv.
SpecConcurrent == InitConcurrent /\ [][Next]_vars

\* An external call some turn awaits returns or throws: a text-generation
\* call, the security-group listing, the deployment.
CallReturns ==
    \E p \in Procs :
        \/ DeployServiceReturns(p)
        \/ FindActionReturns(p)
        \/ ExampleValuesReturn(p)
        \/ ListResourcesReturns(p)
        \/ SynthesisReturns(p)

\* One turn, the environment drawing from NarrowEnv, in which every external
\* call that is awaited returns or throws.
SpecTurnFair ==
    /\ Start(Sequential(NarrowEnv), 1)
    /\ [][Next]_vars
    /\ WF_vars(CallReturns)

\* The calls of processOrderWithLocation, one after another.
NextOrder ==
    \/ OrderReceive
    \/ OrderExecute
    \/ OrderRespond

SpecOrder == InitOrder /\ [][NextOrder]_vars

----------------------------------------------------------------------------
(* The claims *)

\* processMessage returned to the caller (it did not reject the request).
Completed(p) == pc[p] = "returned" /\ ~turn[p].rejected

\* The call took the path of lines 1130-1214, not the form-data path.
WentThroughWorkflow(t) == t.fields = NoFields

\* {role: "assistant", workflow, response: {message, menu}}
HasReplyShape(reply) ==
    /\ reply # Undefined
    /\ {"role", "workflow", "response"} \subseteq DOMAIN reply
    /\ reply.role = "assistant"
    /\ {"message", "menu"} \subseteq DOMAIN reply.response

\* C1: every processMessage call with a userId, whatever the external calls
\* did, returns a reply {role: "assistant", workflow, response: {message,
\* menu}}; the reply is never undefined.
C1_ReplyHasShape ==
    \A p \in Procs : Completed(p) => HasReplyShape(turn[p].reply)

\* The text-generation call of findAction threw on "how many questions have I
\* asked" and the caller got undefined.
C1_UndefinedReply ==
    \E p \in Procs :
        /\ Completed(p)
        /\ turn[p].message = HowManyQuestions
        /\ turn[p].classified = LlmThrows
        /\ turn[p].reply = Undefined

\* The context at the end of the turn: currentCSP on the form-data path, the
\* csp of the state the workflow returned otherwise (the state the call
\* started with when the workflow threw).
EndContext(t) ==
    IF WentThroughWorkflow(t) THEN t.cloudState.csp ELSE t.userCSP

\* C2: whichever path produced the message, the returned reply carries the
\* menu getMenuForCSP(context at the end of the turn, friendly); after
\* SELECT_CSP with csp c it is the menu of c.
C2_MenuOfFinalContext ==
    \A p \in Procs :
        Completed(p) =>
            /\ turn[p].reply # Undefined
            /\ "response" \in DOMAIN turn[p].reply
            /\ "menu" \in DOMAIN turn[p].reply.response
            /\ turn[p].reply.response.menu =
                   getMenuForCSP(OrAws(EndContext(turn[p])), TRUE)

\* A SELECT_CSP action was followed by the re-entry of the summary and the
\* caller got no reply, hence no menu.
C2_NoMenuAfterReentry ==
    \E p \in Procs :
        /\ Completed(p)
        /\ turn[p].resolved # Undefined
        /\ turn[p].resolved.action.type = "SELECT_CSP"
        /\ turn[p].reply = Undefined

\* What llm.invoke did in findAction, as the claims name it.
CallThrew(llm) == llm.kind = "throw"
NotParseable(llm) == llm.kind = "text"
IsNull(llm) == llm.kind = "json" /\ llm.value = [null |-> TRUE]
HasNoAction(llm) ==
    llm.kind = "json" /\ (IsNull(llm) \/ llm.value.action = Undefined)
ResemblesFinalReply(llm) ==
    /\ llm.kind = "json" /\ ~IsNull(llm)
    /\ llm.value.role = "assistant"
    /\ llm.value.workflow # ""
    /\ llm.value.response # Undefined

\* findAction fell back: a GENERAL_RESPONSE action with the message of the
\* user, the context as it was.
FellBack(t) ==
    /\ t.resolved.action =
           Action("GENERAL_RESPONSE", [EmptyPayload EXCEPT !.message = t.message])
    /\ t.resolved.csp = t.userCSP

\* C3 as stated: whenever the classification text is not parseable, has no
\* action property, or the call throws, findAction yields {GENERAL_RESPONSE,
\* {message: the user's message}} and leaves the context unchanged.
C3_FallbackWithoutAction ==
    \A p \in Procs :
        /\ turn[p].resolved # Undefined
        /\ \/ CallThrew(turn[p].classified)
           \/ NotParseable(turn[p].classified)
           \/ HasNoAction(turn[p].classified)
        => FellBack(turn[p])

\* C3 as amended: the same, for a text that is not parseable, that has no
\* action property and does not resemble a final reply (role "assistant", a
\* workflow and a response), or for a call that throws.
C3_FallbackUnlessFinalReply ==
    \A p \in Procs :
        /\ turn[p].resolved # Undefined
        /\ \/ CallThrew(turn[p].classified)
           \/ NotParseable(turn[p].classified)
           \/ HasNoAction(turn[p].classified)
                 /\ ~ResemblesFinalReply(turn[p].classified)
        => FellBack(turn[p])

\* An object without action property was answered by the fallback.
C3_FellBackOnObject ==
    \E p \in Procs :
        /\ turn[p].resolved # Undefined
        /\ turn[p].classified = Json(Parsed("", "", Undefined, Undefined))
        /\ FellBack(turn[p])

\* C4: after findAction the type of the action is a member of the closed
\* enumeration, whatever text the text-generation service returned.
C4_TypeInEnumeration ==
    \A p \in Procs :
        turn[p].resolved # Undefined =>
            /\ turn[p].resolved.action # Undefined
            /\ turn[p].resolved.action.type \in ActionTypes

\* The type "RESTART" of the classification went through findAction.
C4_ForeignType ==
    \E p \in Procs :
        /\ turn[p].resolved # Undefined
        /\ turn[p].classified = ActionJson("RESTART", EmptyPayload)
        /\ turn[p].resolved.action.type = "RESTART"

\* C5: the history of a user is append-only: in every step, every history is
\* a prefix of what it is after the step.
C5_HistoryAppendOnly ==
    [][\A u \in DOMAIN conversations :
          /\ u \in DOMAIN conversations'
          /\ IsPrefix(conversations[u].history, conversations'[u].history)]_vars

RepliedWith(entry, workflow) ==
    /\ entry.role = "assistant"
    /\ entry.reply # Undefined
    /\ entry.reply.workflow = workflow

\* A stored history that grew by a failing turn and a form-data deployment.
C5_GrewByErrorAndDeployment ==
    \E u \in DOMAIN conversations :
        LET history == conversations[u].history IN
        /\ u \in DOMAIN file
        /\ Len(history) >= 6
        /\ \E i \in DOMAIN history : RepliedWith(history[i], "error")
        /\ \E i \in DOMAIN history : RepliedWith(history[i], "deployment")

\* The reply of an assistant entry; undefined when the entry has no content.
ReplyOf(entry) == IF "reply" \in DOMAIN entry THEN entry.reply ELSE Undefined

\* Two entries with the same role and the same content, an undefined content
\* and no content being the same.
SameEntry(a, b) ==
    /\ a.role = b.role
    /\ IF a.role = "human" THEN a.content = b.content
       ELSE ReplyOf(a) = ReplyOf(b)

\* Two records of a user with the same context and the same history.
ContentEqual(stored, memory) ==
    /\ stored.csp = memory.csp
    /\ Len(stored.history) = Len(memory.history)
    /\ \A i \in DOMAIN stored.history :
          SameEntry(stored.history[i], memory.history[i])

\* C6: when a turn of user u completes and the write succeeded, the record
\* stored for u equals the record of u in memory.
C6_StoredEqualsMemory ==
    \A p \in Procs :
        Completed(p) /\ turn[p].saved =>
            /\ turn[p].userId \in DOMAIN file
            /\ ContentEqual(file[turn[p].userId], conversations[turn[p].userId])

\* A failing turn of a user with a stored history was saved.
C6_SavedErrorTurn ==
    \E p \in Procs :
        /\ Completed(p) /\ turn[p].saved
        /\ turn[p].reply # Undefined
        /\ turn[p].reply.workflow = "error"
        /\ Len(file[turn[p].userId].history) >= 4

\* The request of p starts in this step (it is not rejected).
Starts(p) == pc[p] = "idle" /\ pc'[p] \in {"findAction", "deployService"}

\* The stored context of the user before the turn, "" without conversation.
StoredContext(userId) ==
    IF userId \in DOMAIN conversations THEN conversations[userId].csp ELSE ""

\* provider token of the message > context of the caller > stored context >
\* 'aws'
StrictPrecedence(message, csp, stored) ==
    IF CspInMessage(message) # "" THEN CspInMessage(message)
    ELSE IF csp # "" THEN ToLowerCase(csp)
    ELSE IF stored # "" THEN stored
    ELSE "aws"

\* C7: on every entry path, the form-data path included, the context a turn
\* starts with is the provider token of the message, else the context of the
\* caller, else the stored context, else 'aws', and it is a non-empty
\* lowercase string.
C7_StrictPrecedence ==
    [][\A p \in Procs :
          Starts(p) =>
              /\ turn'[p].userCSP =
                     StrictPrecedence(turn'[p].message, turn'[p].csp,
                                      StoredContext(turn'[p].userId))
              /\ turn'[p].userCSP # ""
              /\ turn'[p].userCSP = ToLowerCase(turn'[p].userCSP)]_vars

\* A form-data deployment runs with the context of the caller as it was given.
C7_FormContextAsGiven ==
    \E p \in Procs :
        /\ pc[p] = "deployService"
        /\ turn[p].csp = "Azure"
        /\ turn[p].userCSP = "Azure"

\* The context hint in the payload of the action the classification declared.
ContextHint(t) ==
    IF \/ t.classified.kind # "json"
       \/ ResemblesFinalReply(t.classified)
       \/ HasNoAction(t.classified)
       \/ t.resolved.action # t.classified.value.action
       \/ t.resolved.action.payload = Undefined
    THEN ""
    ELSE t.resolved.action.payload.csp

\* C8: when the resolved action carries a context hint c (or SELECT_CSP
\* selects c), the stored context of the conversation becomes c, and a later
\* request of the user without provider token and without context runs with c.
C8_HintBecomesStoredContext ==
    \A p \in Procs :
        /\ Completed(p)
        /\ WentThroughWorkflow(turn[p])
        /\ ContextHint(turn[p]) # ""
        => /\ conversations[turn[p].userId].csp =
                  ToLowerCase(ContextHint(turn[p]))
           /\ ResolveCsp(conversations, Hi, turn[p].userId, "") =
                  ToLowerCase(ContextHint(turn[p]))

\* SELECT_CSP selected azure and the stored context is still gcp.
C8_SelectedContextNotStored ==
    \E p \in Procs :
        /\ Completed(p)
        /\ turn[p].resolved # Undefined
        /\ turn[p].resolved.action.type = "SELECT_CSP"
        /\ ContextHint(turn[p]) = "Azure"
        /\ conversations[turn[p].userId].csp = "gcp"

\* The human messages before the turn that has just completed: the history
\* without the message of the turn and its reply.
PriorHumans(userId) ==
    HumanContents(DropLast(DropLast(conversations[userId].history)))

\* The executor computed the summary of a CONVERSATION_SUMMARY action whose
\* payload has no count.
SummarizedWithoutCount(t) ==
    /\ WentThroughWorkflow(t)
    /\ t.cloudState.action # Undefined
    /\ t.cloudState.action.type = "CONVERSATION_SUMMARY"
    /\ t.cloudState.action.payload # Undefined
    /\ t.cloudState.action.payload.questionCount = 0
    /\ t.cloudState.response # Undefined
    /\ "previousQuestions" \in DOMAIN t.cloudState.response

\* C9: for a CONVERSATION_SUMMARY action without payload count, questionCount
\* is the number N of distinct human messages before the current turn and
\* previousQuestions is those N messages in first-occurrence order, also when
\* the current message repeats an earlier one.
C9_CountsDistinctPrior ==
    \A p \in Procs :
        Completed(p) /\ SummarizedWithoutCount(turn[p]) =>
            /\ turn[p].cloudState.response.questionCount =
                   Len(Unique(PriorHumans(turn[p].userId)))
            /\ turn[p].cloudState.response.previousQuestions =
                   Unique(PriorHumans(turn[p].userId))

\* The current message repeats an earlier one and the summary misses a
\* question.
C9_RepeatedMessageMiscounted ==
    \E p \in Procs :
        /\ Completed(p) /\ SummarizedWithoutCount(turn[p])
        /\ \E i \in DOMAIN PriorHumans(turn[p].userId) :
              PriorHumans(turn[p].userId)[i] = turn[p].message
        /\ turn[p].cloudState.response.questionCount <
               Len(Unique(PriorHumans(turn[p].userId)))

\* The reply reports the question count n.
ReportsCount(reply, n) ==
    /\ reply # Undefined
    /\ "response" \in DOMAIN reply
    /\ \/ /\ "questionCount" \in DOMAIN reply.response
          /\ reply.response.questionCount = n
       \/ /\ "message" \in DOMAIN reply.response
          /\ reply.response.message = CountMessage(n)

\* C10: a user with 3 prior human turns sends "how many questions have I
\* asked", findAction does not classify it as a summary: the reply returned
\* for that turn reports a question count of 3.
C10_ReentryReportsThree ==
    \A p \in Procs :
        /\ Completed(p)
        /\ WentThroughWorkflow(turn[p])
        /\ turn[p].message = HowManyQuestions
        /\ Len(PriorHumans(turn[p].userId)) = 3
        /\ turn[p].resolved.action.type # "CONVERSATION_SUMMARY"
        => ReportsCount(turn[p].reply, 3)

\* The executor ran again and counted 3, and the caller got undefined.
C10_CountedButNotReplied ==
    \E p \in Procs :
        /\ Completed(p)
        /\ WentThroughWorkflow(turn[p])
        /\ turn[p].message = HowManyQuestions
        /\ Len(PriorHumans(turn[p].userId)) = 3
        /\ turn[p].resolved.action.type = "GENERAL_RESPONSE"
        /\ turn[p].cloudState.response # Undefined
        /\ turn[p].cloudState.response.questionCount = 3
        /\ turn[p].reply = Undefined

\* /^(hi|hello|hey)$/i on the whole message.
IsGreeting(message) ==
    LowerText(message) \in {<<"hi">>, <<"hello">>, <<"hey">>}

\* C11: for every message that is a greeting, the turn makes no
\* text-generation call for classification: it neither waits in findAction
\* nor carries an outcome of that call.
C11_GreetingNotClassified ==
    \A p \in Procs :
        IsGreeting(turn[p].message) /\ ~turn[p].rejected =>
            /\ pc[p] # "findAction"
            /\ turn[p].classified = NoCall

\* "Hi" went to findAction, whose call classified it as a general question.
C11_GreetingClassified ==
    \E p \in Procs :
        /\ Completed(p)
        /\ turn[p].message = Hi
        /\ turn[p].classified \in ClassifyWide \ {LlmThrows}
        /\ turn[p].resolved.action.type = "GENERAL_RESPONSE"

\* C12: "hi" from a user without a conversation gets a reply with workflow
\* "greeting" and a non-empty menu, and the user's history then holds 2
\* entries, the human turn and the assistant reply.
C12_NewUserGreeted ==
    \A p \in Procs :
        Completed(p) /\ turn[p].isNew /\ turn[p].message = Hi =>
            /\ HasReplyShape(turn[p].reply)
            /\ turn[p].reply.workflow = "greeting"
            /\ turn[p].reply.response.menu # <<>>
            /\ HistoryOf(conversations, turn[p].userId) =
                   <<HumanEntry(Hi), AssistantEntry(turn[p].reply)>>

\* "Hi" from a new user was answered as a general question: 2 entries and a
\* menu, and the workflow is generalResponse.
C12_GreetingAnsweredAsGeneral ==
    \E p \in Procs :
        /\ Completed(p)
        /\ turn[p].isNew
        /\ WentThroughWorkflow(turn[p])
        /\ turn[p].message = Hi
        /\ HasReplyShape(turn[p].reply)
        /\ turn[p].reply.workflow = "generalResponse"
        /\ turn[p].reply.response.menu # <<>>
        /\ Len(HistoryOf(conversations, turn[p].userId)) = 2

\* C13: a processMessage call without userId is rejected and changes nothing:
\* the step that takes the call ends it as rejected, with no external call
\* pending, and leaves the conversations in memory and the stored collection
\* as they were, with or without form data.
C13_RejectionChangesNothing ==
    [][\A p \in Procs :
          pc[p] = "idle" /\ pc'[p] # "idle" /\ turn'[p].userId = "" =>
              /\ turn'[p].rejected
              /\ pc'[p] = "returned"
              /\ conversations' = conversations
              /\ file' = file]_vars

\* A request with form data and no userId was rejected, after a turn of u1
\* had been stored.
C13_RejectedWithFormData ==
    \E p \in Procs :
        /\ pc[p] = "returned"
        /\ turn[p].rejected
        /\ turn[p].fields = FormData
        /\ DOMAIN conversations = {"u1"}
        /\ DOMAIN file = {"u1"}
        /\ Len(file["u1"].history) >= 2

\* Contexts a menu is asked for, in several spellings.
MenuContexts ==
    {"aws", "AWS", "Azure", "AZURE", "gcp", "Gcp", "Oracle", "Bucket"}

SaveLoaded(stored, userId, io) ==
    saveUserConversation(stored, userId,
        loadAllConversationsFromFile(stored, TRUE)[userId], io)

\* The same users, each with a content-equal record.
SameCollection(before, after) ==
    /\ DOMAIN after = DOMAIN before
    /\ \A userId \in DOMAIN before :
          ContentEqual(before[userId], after[userId])

Steps(p) == pc'[p] # pc[p]

\* The user of the request that takes the step.
ActingUser(p) == IF pc[p] = "idle" THEN turn'[p].userId ELSE turn[p].userId

\* The step of p ends a turn with the save of lines 1006-1016.
Saves(p) == Steps(p) /\ pc'[p] = "returned" /\ ~turn'[p].rejected

Occurrences(history, entry) ==
    Cardinality({i \in DOMAIN history : history[i] = entry})

\* The same entries, each as often, in any order.
IsPermutation(s, t) ==
    /\ Len(s) = Len(t)
    /\ \A i \in DOMAIN t : Occurrences(s, t[i]) = Occurrences(t, t[i])

\* The entries that follow the first `seen` ones.
EntriesSince(history, seen) == SubSeq(history, seen + 1, Len(history))

\* Two turns of one user of which q started while p was waiting at an
\* external call, both over.
Overlapped(p, q) ==
    /\ Completed(p) /\ Completed(q)
    /\ turn[p].userId = turn[q].userId
    /\ turn[q].seen = turn[p].seen + 1

\* The human message and the reply of both turns.
EntriesOf(p, q) ==
    <<HumanEntry(turn[p].message), HumanEntry(turn[q].message),
      AssistantEntry(turn[p].reply), AssistantEntry(turn[q].reply)>>

\* The history in memory holds what the two turns added.
KeptInMemory(p, q) ==
    IsPermutation(
        EntriesSince(conversations[turn[p].userId].history, turn[p].seen),
        EntriesOf(p, q))

\* The stored history holds what the two turns added.
KeptInFile(p, q) ==
    /\ turn[p].userId \in DOMAIN file
    /\ Len(file[turn[p].userId].history) >= turn[p].seen
    /\ IsPermutation(
           EntriesSince(file[turn[p].userId].history, turn[p].seen),
           Map(EntriesOf(p, q), StringifyEntry))

EndsWithTurn(history, t) ==
    /\ Len(history) >= 2
    /\ history[Len(history) - 1] = HumanEntry(t.message)
    /\ history[Len(history)] = AssistantEntry(t.reply)

\* C18: when reading or writing the stored collection fails during a turn,
\* the turn returns the reply it made, nothing being added for the failure:
\* the user's record in memory ends with the human message and that reply;
\* and when a turn finds the stored record behind the one in memory and its
\* write succeeds, the stored record equals the one in memory again.
C18_FailureKeptInMemoryAndRepaired ==
    \A p \in Procs :
        /\ Completed(p) /\ ~(turn[p].saved /\ turn[p].reread) =>
              EndsWithTurn(HistoryOf(conversations, turn[p].userId), turn[p])
        /\ Completed(p) /\ turn[p].stale /\ turn[p].saved =>
              /\ turn[p].userId \in DOMAIN file
              /\ ContentEqual(file[turn[p].userId],
                              conversations[turn[p].userId])

\* The write of the first turn failed; the second turn found the stored
\* record two entries behind, its re-read failed and its write succeeded:
\* the stored history has all four entries.
C18_RepairedByLaterTurn ==
    \E p \in Procs :
        /\ Completed(p)
        /\ turn[p].stale /\ turn[p].saved /\ ~turn[p].reread
        /\ turn[p].seen = 2
        /\ Len(file[turn[p].userId].history) = 4
        /\ turn[p].reply # Undefined

\* C19: a record in the stored collection is never removed: whatever a step
\* does, a failed re-read of the collection included, every user stored
\* before it is stored after it, with the earlier history as a prefix.
C19_StoredRecordsNeverRemoved ==
    [][\A userId \in DOMAIN file :
          /\ userId \in DOMAIN file'
          /\ IsPrefix(file[userId].history, file'[userId].history)]_vars

\* The turn of u1 could not re-read the collection and wrote it: u2, loaded
\* from the file when the process started and idle since, is no longer in it.
C19_OtherUserDropped ==
    \E p \in Procs :
        /\ Completed(p)
        /\ turn[p].userId = "u1"
        /\ ~turn[p].reread /\ turn[p].saved
        /\ "u2" \in DOMAIN conversations
        /\ DOMAIN file = {"u1"}

\* The reply is one of the two fixed apologies: the one of
\* createErrorResponse or the one of the catch of processMessage.
IsApology(reply) ==
    /\ reply # Undefined
    /\ \/ /\ reply.workflow = "errorResponse"
          /\ reply.response.message = ErrorMessage
       \/ /\ reply.workflow = "error"
          /\ reply.response.message = ErrorReply("aws").response.message

\* C20 as stated: whenever the classification call, the example-value call or
\* the synthesis call of a turn throws, the turn returns to the caller and
\* its reply is a fixed apologetic message.
C20_ApologyAfterAnyThrow ==
    \A p \in Procs :
        /\ pc[p] = "returned"
        /\ \/ CallThrew(turn[p].classified)
           \/ CallThrew(turn[p].exampled)
           \/ CallThrew(turn[p].synthesized)
        => Completed(p) /\ IsApology(turn[p].reply)

\* The reply presents the service, each required field with the default
\* example: no value.
HasDefaultExamples(reply) ==
    /\ reply # Undefined
    /\ reply.workflow = "serviceConfiguration"
    /\ reply.response.serviceConfig.requiredFields # <<>>
    /\ \A i \in DOMAIN reply.response.serviceConfig.requiredFields :
          reply.response.serviceConfig.requiredFields[i].exampleValue = <<>>

\* C20, as the code has it: a throwing text-generation call never reaches the
\* caller.  When the synthesis call throws, the reply is the fixed apology of
\* createErrorResponse; when the classification call throws, findAction
\* falls back to the general action and the turn goes on; when the
\* example-value call throws, the turn goes on with the default examples,
\* which its reply presents (if it has a reply: the re-entry of the summary
\* leaves none).
C20_ThrowsRecoveredPerCall ==
    \A p \in Procs :
        pc[p] = "returned" =>
            /\ CallThrew(turn[p].synthesized) =>
                  /\ Completed(p)
                  /\ turn[p].reply # Undefined
                  /\ turn[p].reply.workflow = "errorResponse"
                  /\ turn[p].reply.response.message = ErrorMessage
            /\ CallThrew(turn[p].classified) =>
                  Completed(p) /\ FellBack(turn[p])
            /\ CallThrew(turn[p].exampled) =>
                  /\ Completed(p)
                  /\ turn[p].reply # Undefined =>
                        HasDefaultExamples(turn[p].reply)

\* The classification call threw, the synthesis call answered, and the reply
\* is that answer, not an apology.
C20_AnsweredAfterClassificationThrew ==
    \E p \in Procs :
        /\ Completed(p)
        /\ CallThrew(turn[p].classified)
        /\ turn[p].synthesized \in SynthesisNarrow \ {LlmThrows}
        /\ turn[p].reply # Undefined
        /\ turn[p].reply.workflow = "generalResponse"

\* describeSecurityGroups failed: listAWSSecurityGroups returned the text of
\* its catch (line 975).
ListingFailed(listed) ==
    /\ listed.kind = "listed"
    /\ IsPrefix(<<"Error retrieving security groups:">>, listed.text)

\* The raw error of the failed call.
RawError(listed) == SubSeq(listed.text, 2, Len(listed.text))

\* C21: when the resource-listing call of a LIST_RESOURCES action fails, the
\* executor does not throw, the event of the turn is not the success tag
\* resources_listed, and the message of the reply does not embed the raw
\* error.
C21_ListingFailureApologized ==
    \A p \in Procs :
        Completed(p) /\ ListingFailed(turn[p].listed) =>
            /\ turn[p].reply # Undefined
            /\ turn[p].reply.workflow # "error"
            /\ turn[p].cloudState.event # "resources_listed"
            /\ ~Includes(turn[p].reply.response.message,
                         RawError(turn[p].listed))

\* The listing failed with CredentialsError: the event is resources_listed
\* and the reply is the text of the catch, the raw error in it.
C21_RawErrorAsListing ==
    \E p \in Procs :
        /\ Completed(p)
        /\ ListingFailed(turn[p].listed)
        /\ turn[p].cloudState.event = "resources_listed"
        /\ turn[p].reply # Undefined
        /\ turn[p].reply.response.message = turn[p].listed.text

\* findAction resolved a DEPLOY action that names a service without matching
\* catalog entry in the context of the turn.
DeploysUnknownService(t) ==
    /\ WentThroughWorkflow(t)
    /\ t.resolved # Undefined
    /\ t.resolved.action # Undefined
    /\ t.resolved.action.type = "DEPLOY"
    /\ t.resolved.action.payload # Undefined
    /\ t.resolved.action.payload.service # <<>>
    /\ findMatchingServiceByName(t.resolved.action.payload.service,
                                 t.resolved.csp) = Undefined

\* The text names every entry of the list.
ListsAll(text, names) == \A i \in DOMAIN names : Includes(text, names[i])

\* C22: for a DEPLOY action naming a service without matching catalog entry
\* in the active context, the executor takes the not-found branch (event
\* service_not_found), the synthesizer makes no text-generation call, and the
\* message of the reply lists the catalog entries available for the context.
C22_NotFoundListsAvailable ==
    \A p \in Procs :
        Completed(p) /\ DeploysUnknownService(turn[p]) =>
            /\ turn[p].synthesized = NoCall
            /\ turn[p].cloudState.event = "service_not_found"
            /\ turn[p].reply # Undefined
            /\ ListsAll(turn[p].reply.response.message,
                        AvailableServices(servicesData, turn[p].resolved.csp))

\* Kubernetes is not in the catalog of aws: the not-found branch was taken
\* without synthesis call, the reply carries the two available services as
\* availableServices, and its message names none of them.
C22_AvailableNotInMessage ==
    \E p \in Procs :
        /\ Completed(p)
        /\ DeploysUnknownService(turn[p])
        /\ turn[p].synthesized = NoCall
        /\ turn[p].cloudState.event = "service_not_found"
        /\ turn[p].reply # Undefined
        /\ turn[p].reply.workflow = "service_not_found"
        /\ Len(turn[p].reply.response.availableServices) = 2
        /\ \A i \in 1..2 :
              ~Includes(turn[p].reply.response.message,
                        turn[p].reply.response.availableServices[i])


\* ---------------------------------------------------------------------------
\* C23

\* The number of times method appears among the methods a call entered.
TimesEntered(stages, method) ==
    Cardinality({i \in 1..Len(stages) : stages[i] = method})

\* The methods of a turn in the order of the workflow, and the same order
\* followed by the one re-entry of processAction.
StageOrder == <<"findAction", "processAction", "generateUnifiedResponse">>

StageOrderReentered == StageOrder \o <<"processAction">>

\* C23: within one turn the methods are entered in the order findAction,
\* processAction, generateUnifiedResponse, with the one exception that
\* generateUnifiedResponse may enter processAction once more; findAction is
\* entered exactly once, processAction at most twice, and a turn that
\* re-entered processAction still completes with a final reply set.
C23_StagesInOrderAndReentryReplies ==
    \A p \in Procs :
        turn[p].stages # <<>> =>
            /\ IsPrefix(turn[p].stages, StageOrderReentered)
            /\ TimesEntered(turn[p].stages, "findAction") = 1
            /\ TimesEntered(turn[p].stages, "processAction") <= 2
            /\ Completed(p) /\ turn[p].stages = StageOrderReentered =>
                   /\ turn[p].reply # Undefined
                   /\ turn[p].cloudState.finalResponse # Undefined

\* A completed turn that re-entered processAction and has no final reply.
C23_ReentryWithoutReply ==
    \E p \in Procs :
        /\ Completed(p)
        /\ turn[p].stages = StageOrderReentered
        /\ turn[p].reply = Undefined


\* ---------------------------------------------------------------------------
\* C24

\* What processAction may leave for generateUnifiedResponse: a structured
\* summary, a deterministic message, a catalog match.
ProducedSummary(cloudState) ==
    /\ cloudState.response # Undefined
    /\ \/ "previousQuestions" \in DOMAIN cloudState.response
       \/ /\ "questionCount" \in DOMAIN cloudState.response
          /\ cloudState.response.questionCount # 0

ProducedMessage(cloudState) ==
    /\ cloudState.response # Undefined
    /\ "customMessage" \in DOMAIN cloudState.response
    /\ cloudState.response.customMessage # <<>>

ProducedMatch(cloudState) ==
    /\ cloudState.response # Undefined
    /\ "status" \in DOMAIN cloudState.response
    /\ cloudState.response.status = "service_found"

\* The workflow tag of the reply built from a deterministic message.
MessageWorkflow(response) ==
    IF "status" \in DOMAIN response /\ response.status # ""
    THEN response.status ELSE "customResponse"

\* The reply is built from what processAction left, the summary first, then
\* the message, then the match.
BuiltInOrder(executed, reply) ==
    /\ reply # Undefined
    /\ reply.workflow =
           IF ProducedSummary(executed) THEN "conversationSummary"
           ELSE IF ProducedMessage(executed)
           THEN MessageWorkflow(executed.response)
           ELSE "serviceConfiguration"
    /\ ProducedMessage(executed) /\ ~ProducedSummary(executed) =>
           reply.response.message = executed.response.customMessage

\* C24: generateUnifiedResponse makes its text-generation call only when
\* processAction left no structured summary, no deterministic message and no
\* catalog match; in each of these three cases the final reply is built
\* without a call, from the summary first, then the message, then the match.
C24_SynthesisOnlyWithoutResult ==
    \A p \in Procs :
        turn[p].executed # Undefined =>
            \E executed \in {turn[p].executed} :
                \/ ProducedSummary(executed)
                \/ ProducedMessage(executed)
                \/ ProducedMatch(executed)
                => /\ pc[p] = "returned"
                   /\ turn[p].synthesized = NoCall
                   /\ BuiltInOrder(executed, turn[p].reply)

\* A completed turn whose deterministic message was dropped by the re-entry.
C24_MessageWithoutReply ==
    \E p \in Procs :
        /\ Completed(p)
        /\ turn[p].executed # Undefined
        /\ ProducedMessage(turn[p].executed)
        /\ turn[p].synthesized = NoCall
        /\ turn[p].reply = Undefined


\* ---------------------------------------------------------------------------
\* C25

\* The catalog entry a DEPLOY action of the turn matched, Undefined when it
\* matched none.
MatchedService(t) ==
    IF /\ WentThroughWorkflow(t)
       /\ t.resolved # Undefined
       /\ t.resolved.action # Undefined
       /\ t.resolved.action.type = "DEPLOY"
       /\ t.resolved.action.payload # Undefined
       /\ t.resolved.action.payload.service # <<>>
    THEN findMatchingServiceByName(t.resolved.action.payload.service,
                                   t.resolved.csp)
    ELSE Undefined

\* The example-value call failed: it threw, its text did not parse, or the
\* parsed JSON has no fields list.
NoExamples(llm) ==
    \/ llm.kind \in {"throw", "text"}
    \/ llm.kind = "json" /\ "fields" \notin DOMAIN llm.value

\* Every required field of the entry is in the list, with an exampleValue,
\* which is empty when `empty` is set.
CarryExamples(fields, service, empty) ==
    /\ Len(fields) = Len(service.requiredFields)
    /\ \A i \in DOMAIN fields :
          /\ fields[i].fieldId = service.requiredFields[i].fieldId
          /\ "exampleValue" \in DOMAIN fields[i]
          /\ empty => fields[i].exampleValue = <<>>

\* C25: on a DEPLOY action that matches a catalog entry, whatever the
\* example-value call does (throw, unparseable text, JSON without fields
\* list), processAction ends with status service_found and every required
\* field of the entry carrying an exampleValue, empty when none was generated,
\* and the turn gets its normal reply.
C25_DeployHitSurvivesExampleFailure ==
    \A p \in Procs :
        Completed(p) /\ MatchedService(turn[p]) # Undefined
                     /\ NoExamples(turn[p].exampled) =>
            /\ turn[p].executed # Undefined
            /\ ProducedMatch(turn[p].executed)
            /\ CarryExamples(
                   turn[p].executed.response.serviceConfig.requiredFields,
                   MatchedService(turn[p]), TRUE)
            /\ turn[p].reply # Undefined
            /\ turn[p].reply.workflow # "error"

\* A completed turn whose DEPLOY action matched, whose example-value call
\* returned JSON without fields list, and which was answered by the apology.
C25_JsonWithoutFieldsAborts ==
    \E p \in Procs :
        /\ Completed(p)
        /\ MatchedService(turn[p]) # Undefined
        /\ turn[p].exampled.kind = "json"
        /\ "fields" \notin DOMAIN turn[p].exampled.value
        /\ turn[p].executed = Undefined
        /\ turn[p].reply # Undefined
        /\ turn[p].reply.workflow = "error"


\* ---------------------------------------------------------------------------
\* C26

\* The action type of the turn of the order bot that reached processAction,
\* "" when it did not.
OrderType ==
    IF orderPc \in {"generateUnifiedResponse", "done"}
       /\ orderTurn.before # Undefined
       /\ orderTurn.before.action # Undefined
    THEN orderTurn.before.action.type
    ELSE ""

\* The payload of the action has no itemIds.
MissingItemIds == "itemIds" \notin DOMAIN orderTurn.before.action.payload

\* C26: REMOVE_ITEM and SET_QUANTITY never throw, whatever the payload: with
\* the identifier list missing, an identifier empty, the quantity missing or
\* the cart call failing, processAction returns with event cartFailed and
\* the fixed apology as message.
C26_CartFailuresReported ==
    OrderType \in {"REMOVE_ITEM", "SET_QUANTITY"} =>
        /\ orderTurn.after # Undefined
        /\ MissingItemIds \/ orderTurn.failed =>
               /\ orderTurn.after.event = "cartFailed"
               /\ orderTurn.after.customAiMessageContent =
                      CartApology(OrderType)

\* REMOVE_ITEM without identifier list threw out of processAction: the turn
\* ended in the catch of processOrderWithLocation and nothing was saved.
C26_MissingListThrows ==
    /\ orderPc = "done"
    /\ OrderType = "REMOVE_ITEM"
    /\ MissingItemIds
    /\ orderTurn.after = Undefined
    /\ orderTurn.threw
    /\ ~orderTurn.saved


\* ---------------------------------------------------------------------------
\* C27

\* processAction of the turn of the order bot returned.
OrderExecuted ==
    /\ orderPc \in {"generateUnifiedResponse", "done"}
    /\ orderTurn.after # Undefined

\* The sum of price * quantity over the lines of a snapshot.
SumOfLines(items) ==
    LET RECURSIVE UpTo(_)
        UpTo(n) == IF n = 0 THEN 0
                   ELSE UpTo(n - 1) + items[n].price * items[n].quantity
    IN UpTo(Len(items))

\* The lines the cart API holds for the user.
DomainLines == getCartByUserId(domainCart, [cart |-> "ok"]).items

\* C27: after a cart action (ADD_ITEM, REMOVE_ITEM, SET_QUANTITY) with a
\* successful mutation the snapshot is what the cart API answered to the read
\* that followed (the lines of the domain cart, or nothing) and totalPrice is
\* the sum of price * quantity over the snapshot; with no successful mutation
\* the snapshot and the total are those of before.
C27_SnapshotFollowsMutations ==
    OrderExecuted /\ OrderType \in {"ADD_ITEM", "REMOVE_ITEM", "SET_QUANTITY"} =>
        IF orderTurn.mutated > 0
        THEN /\ orderTurn.after.cartItems \in {DomainLines, <<>>}
             /\ orderTurn.after.totalPrice = SumOfLines(orderTurn.after.cartItems)
        ELSE /\ orderTurn.after.cartItems = orderTurn.before.cartItems
             /\ orderTurn.after.totalPrice = orderTurn.before.totalPrice

\* A cart action whose first mutation succeeded and whose second failed: the
\* snapshot holds the one line read after the first, and its price.
C27_SuccessThenFailure ==
    /\ OrderExecuted
    /\ OrderType = "ADD_ITEM"
    /\ orderTurn.mutated = 1
    /\ orderTurn.failed
    /\ Len(orderTurn.after.cartItems) = 1
    /\ orderTurn.after.totalPrice = 10
    /\ orderTurn.before.totalPrice = 0


\* ---------------------------------------------------------------------------
\* C28

\* The state has no cart, no total and no pending selection.
IsReset(orderState) ==
    /\ orderState.cartItems = <<>>
    /\ orderState.totalPrice = 0
    /\ orderState.pendingItemId = ""

\* C28: PROCESS_ORDER whose order creation succeeded leaves an empty
\* snapshot, total 0, no pending selection and the event orderPlaced, and the
\* state saved at the end of the turn is that state (with the turn added to
\* its history); when the order creation failed the snapshot and the total
\* are those of before, the event is orderFailed and the message is the fixed
\* failure message.
C28_OrderPlacedResetsAndSaves ==
    OrderExecuted /\ OrderType = "PROCESS_ORDER" =>
        IF orderTurn.failed
        THEN /\ orderTurn.after.cartItems = orderTurn.before.cartItems
             /\ orderTurn.after.totalPrice = orderTurn.before.totalPrice
             /\ orderTurn.after.event = "orderFailed"
             /\ orderTurn.after.customAiMessageContent =
                    <<"Sorry, we couldn't process your order, please try again">>
        ELSE /\ IsReset(orderTurn.after)
             /\ orderTurn.after.event = "orderPlaced"
             /\ orderPc = "done" =>
                    /\ orderTurn.saved
                    /\ orderStore # Undefined
                    /\ orderStore =
                           [orderTurn.after EXCEPT
                               !.conversationHistory = orderStore.conversationHistory,
                               !.answer = orderStore.answer]

\* An order placed from a cart that held a line: the saved state is reset.
C28_PlacedFromFilledCart ==
    /\ orderPc = "done"
    /\ OrderType = "PROCESS_ORDER"
    /\ orderTurn.before.cartItems # <<>>
    /\ orderTurn.before.totalPrice > 0
    /\ ~orderTurn.failed
    /\ orderTurn.saved
    /\ orderStore # Undefined
    /\ IsReset(orderStore)
    /\ orderStore.event = "orderPlaced"


\* ---------------------------------------------------------------------------
\* C29

\* C29: CANCEL_ORDER calls no domain service and resets local state only:
\* afterwards the snapshot is empty, the total 0, confirmed false and the
\* pending selection cleared, while the conversation history and the user and
\* session identifiers are those of before.
C29_CancelResetsLocalStateOnly ==
    OrderExecuted /\ OrderType = "CANCEL_ORDER" =>
        /\ orderTurn.calls = 0
        /\ orderTurn.mutated = 0
        /\ IsReset(orderTurn.after)
        /\ ~orderTurn.after.confirmed
        /\ orderTurn.after.conversationHistory =
               orderTurn.before.conversationHistory
        /\ orderTurn.after.userId = orderTurn.before.userId
        /\ orderTurn.after.sessionId = orderTurn.before.sessionId

\* An order cancelled in the second turn of a user whose snapshot held a
\* line: the snapshot is empty, the history kept, and the cart API still
\* holds the line.
C29_CancelledFilledCart ==
    /\ orderPc = "generateUnifiedResponse"
    /\ OrderType = "CANCEL_ORDER"
    /\ orderTurn.before.cartItems # <<>>
    /\ orderTurn.before.conversationHistory # <<>>
    /\ orderTurn.before.userId = "u1"
    /\ orderTurn.after.cartItems = <<>>
    /\ orderTurn.after.conversationHistory # <<>>
    /\ DomainLines # <<>>


\* ---------------------------------------------------------------------------
\* C30

\* findAction resolved a LIST_RESOURCES action that processAction does not
\* list: the context is not aws, or the resource type is missing or not a
\* security group.
UnsupportedListing(t) ==
    /\ WentThroughWorkflow(t)
    /\ t.resolved # Undefined
    /\ t.resolved.action # Undefined
    /\ t.resolved.action.type = "LIST_RESOURCES"
    /\ \/ t.resolved.csp # "aws"
       \/ t.resolved.action.payload = Undefined
       \/ t.resolved.action.payload.resourceType = <<>>
       \/ ~IsSecurityGroup(t.resolved.action.payload.resourceType)

\* C30: on such an action processAction makes no listing call and returns
\* event, response and context as it got them, without message, and
\* generateUnifiedResponse still gives the turn a reply with message and menu.
C30_UnsupportedListingFallsThrough ==
    \A p \in Procs :
        Completed(p) /\ UnsupportedListing(turn[p]) =>
            /\ turn[p].listed = NoCall
            /\ turn[p].executed # Undefined
            /\ turn[p].executed.event = turn[p].resolved.event
            /\ turn[p].executed.response = turn[p].resolved.response
            /\ turn[p].executed.csp = turn[p].resolved.csp
            /\ ~ProducedMessage(turn[p].executed)
            /\ HasReplyShape(turn[p].reply)
            /\ turn[p].reply.workflow # "error"

\* A completed turn whose LIST_RESOURCES action named no resource type:
\* processAction returned the state as it got it, and the turn has no reply.
C30_UnsupportedListingWithoutReply ==
    \E p \in Procs :
        /\ Completed(p)
        /\ UnsupportedListing(turn[p])
        /\ turn[p].resolved.action.payload # Undefined
        /\ turn[p].listed = NoCall
        /\ turn[p].executed # Undefined
        /\ turn[p].executed.response = turn[p].resolved.response
        /\ turn[p].reply = Undefined

\* C31: findMatchingServiceByName returns the first catalog entry, in catalog
\* order, whose lowercased cloud tag equals the lowercased context (aws when
\* there is none) and whose normalized name contains the normalized requested
\* name; it returns null when no entry qualifies, and never an entry of
\* another context.  Checked on every DEPLOY request that reached the lookup:
\* on the value of the lookup and on the result processAction built from it.

\* The turn's action is a DEPLOY that names a service.
DeployRequest(t) ==
    /\ WentThroughWorkflow(t)
    /\ t.resolved # Undefined
    /\ t.resolved.action # Undefined
    /\ t.resolved.action.type = "DEPLOY"
    /\ t.resolved.action.payload # Undefined
    /\ t.resolved.action.payload.service # <<>>

CatalogList == IF servicesData = Undefined THEN <<>> ELSE servicesData.list

\* The positions of the catalog entries that qualify for the turn's request.
Qualifying(t) ==
    LET context == IF t.resolved.csp = "" THEN "aws" ELSE t.resolved.csp
    IN { i \in DOMAIN CatalogList :
           /\ ToLowerCase(CatalogList[i].cloud) = ToLowerCase(context)
           /\ Includes(normalize(CatalogList[i].name),
                       normalize(t.resolved.action.payload.service)) }

FirstQualifying(t) ==
    CatalogList[CHOOSE i \in Qualifying(t) : \A j \in Qualifying(t) : i <= j]

C31_UpperCaseTag ==
    \E p \in DOMAIN turn :
        /\ DeployRequest(turn[p])
        /\ turn[p].executed # Undefined
        /\ Qualifying(turn[p]) # {}
        /\ FirstQualifying(turn[p]).cloud # ToLowerCase(FirstQualifying(turn[p]).cloud)
        /\ turn[p].executed.response.status = "service_found"

\* C32: the messages sent for classification are the system instruction, then
\* the turns that precede the current one in history order (human entries as
\* human, assistant entries as assistant with their content serialized), then
\* the current message; the current message appears exactly once.

\* The request of the turn has been sent for classification.
SentForClassification(p) ==
    /\ pc[p] # "idle"
    /\ ~turn[p].rejected
    /\ WentThroughWorkflow(turn[p])

\* The entries the user's history held before the turn.
PrecedingTurns(t) == SubSeq(HistoryOf(conversations, t.userId), 1, t.seen)

\* How often the message m occurs as a human message of the request.
TimesSent(sent, m) ==
    Cardinality({i \in DOMAIN sent :
                    sent[i].type = "human" /\ sent[i].content = m})

C32_CurrentMessageSentOnce ==
    \A p \in DOMAIN turn :
        SentForClassification(p) =>
            /\ turn[p].sent =
                   <<[type |-> "system"]>> \o
                   generateConversationHistory(PrecedingTurns(turn[p])) \o
                   <<[type |-> "human", content |-> turn[p].message]>>
            /\ Len(turn[p].sent) = turn[p].seen + 2

\* A request sent on a history of earlier turns holds the current message
\* twice at its end.
C32_CurrentMessageTwice ==
    \E p \in DOMAIN turn :
        /\ SentForClassification(p)
        /\ turn[p].seen >= 2
        /\ Len(turn[p].sent) = turn[p].seen + 3
        /\ turn[p].sent[Len(turn[p].sent)] =
               [type |-> "human", content |-> turn[p].message]
        /\ turn[p].sent[Len(turn[p].sent) - 1] =
               [type |-> "human", content |-> turn[p].message]
        /\ TimesSent(SubSeq(turn[p].sent, turn[p].seen + 2, Len(turn[p].sent)),
                     turn[p].message) = 2

\* Apart from the repeated current message the request is as described: the
\* system instruction, the preceding turns in order, the current message.
C32_PrecedingTurnsInOrder ==
    \A p \in DOMAIN turn :
        SentForClassification(p) =>
            turn[p].sent =
                <<[type |-> "system"]>> \o
                generateConversationHistory(PrecedingTurns(turn[p])) \o
                <<[type |-> "human", content |-> turn[p].message],
                  [type |-> "human", content |-> turn[p].message]>>

\* C33: in the synthesizer's model-call path the reply's message is always a
\* string, chosen by the fallback chain: the answer field if present, else the
\* nested response.message, else the first non-empty string property of the
\* parsed object, else the raw text; for every text the model returns,
\* including JSON whose answer is not a string and JSON that is not an object.

\* The turn is over, and its reply was made from the text the synthesis call
\* returned.
SynthesizedFromText(p) ==
    /\ Completed(p)
    /\ WentThroughWorkflow(turn[p])
    /\ turn[p].synthesized # NoCall
    /\ turn[p].synthesized.kind # "throw"
    /\ turn[p].reply # Undefined

\* The message the fallback chain describes for the answer llm.
ChainMessage(llm) ==
    IF llm.kind = "text" THEN llm.raw
    ELSE IF "entries" \notin DOMAIN llm.value THEN llm.raw
    ELSE LET object == llm.value
             named == {i \in DOMAIN object.entries :
                          object.entries[i].key = "answer"}
             strings == {i \in DOMAIN object.entries :
                            /\ object.entries[i].value # <<NonString>>
                            /\ object.entries[i].value # <<>>}
             Least(set) == CHOOSE i \in set : \A j \in set : i <= j
         IN IF named # {} THEN object.entries[Least(named)].value
            ELSE IF /\ object.response # Undefined
                    /\ "message" \in DOMAIN object.response
                 THEN object.response.message
            ELSE IF strings # {} THEN object.entries[Least(strings)].value
            ELSE llm.raw

C33_MessageIsStringOfChain ==
    \A p \in DOMAIN turn :
        SynthesizedFromText(p) =>
            /\ turn[p].reply.response.message # <<NonString>>
            /\ turn[p].reply.response.message = ChainMessage(turn[p].synthesized)

\* The synthesis call answered JSON whose answer is not a string, and the
\* reply's message is that value.
C33_NonStringAnswerReturned ==
    \E p \in DOMAIN turn :
        /\ SynthesizedFromText(p)
        /\ turn[p].synthesized.kind = "json"
        /\ "entries" \in DOMAIN turn[p].synthesized.value
        /\ Prop(turn[p].synthesized.value, "answer") = <<NonString>>
        /\ turn[p].reply.response.message = <<NonString>>

\* The chain without its last step: whenever the answer is text that is no
\* JSON, JSON that is no object, or an object with a string under answer,
\* response.message or any property, the message is the string the chain
\* names.
C33_ChainOnStrings ==
    \A p \in DOMAIN turn :
        /\ SynthesizedFromText(p)
        /\ ChainMessage(turn[p].synthesized) # <<NonString>>
        /\ ChainMessage(turn[p].synthesized) # turn[p].synthesized.raw
               \/ turn[p].synthesized.kind = "text"
               \/ "entries" \notin DOMAIN turn[p].synthesized.value
        => turn[p].reply.response.message = ChainMessage(turn[p].synthesized)

\* C34: every turn terminates: provided each external call of the turn returns
\* or throws, processMessage eventually returns, having made at most one
\* classification call, at most one example-value call and at most one
\* synthesis call, and having attempted exactly one durable save.

\* processMessage is past its userId check and has not returned.
InTurn(p) == pc[p] \notin {"idle", "returned"}

TimesCalled(t, call) ==
    Cardinality({i \in DOMAIN t.awaited : t.awaited[i] = call})

ReturnedWithinBudget(p) ==
    /\ pc[p] = "returned"
    /\ TimesCalled(turn[p], "classification") <= 1
    /\ TimesCalled(turn[p], "examples") <= 1
    /\ TimesCalled(turn[p], "synthesis") <= 1
    /\ TimesCalled(turn[p], "save") = 1
    /\ turn[p].awaited[Len(turn[p].awaited)] = "save"

C34_TurnTerminatesWithinBudget ==
    \A p \in Procs : InTurn(p) ~> ReturnedWithinBudget(p)

\* A turn has returned after a classification, an example-value call and a
\* save; another after a classification, a synthesis and a save.
C34_DeployTurnReturned ==
    \E p \in Procs :
        /\ pc[p] = "returned"
        /\ turn[p].awaited = <<"classification", "examples", "save">>

C34_SynthesizedTurnReturned ==
    \E p \in Procs :
        /\ pc[p] = "returned"
        /\ turn[p].awaited = <<"classification", "synthesis", "save">>

\* The counts alone, on every returned turn of any specification.
C34_BudgetAtReturn ==
    \A p \in Procs :
        pc[p] = "returned" /\ ~turn[p].rejected => ReturnedWithinBudget(p)

\* C35: when the turns of a user run one after another, every completed turn
\* appends exactly two entries to the user's history, a human entry holding
\* the message followed by an assistant entry holding the reply returned to
\* the caller; so the history has even length and alternates human,
\* assistant; on the normal path, the error path and the form-data path.

\* The history reads human, assistant, human, assistant, ...
Alternates(history) ==
    /\ Len(history) % 2 = 0
    /\ \A i \in DOMAIN history :
          history[i].role = IF i % 2 = 1 THEN "human" ELSE "assistant"

C35_TurnAppendsHumanThenReply ==
    /\ \A p \in Procs :
          Completed(p) =>
              LET history == HistoryOf(conversations, turn[p].userId) IN
              /\ Len(history) = turn[p].seen + 2
              /\ history[turn[p].seen + 1] = HumanEntry(turn[p].message)
              /\ history[turn[p].seen + 2] = AssistantEntry(turn[p].reply)
    /\ \A u \in DOMAIN conversations :
          (\A p \in Procs : InTurn(p) => turn[p].userId # u) =>
              Alternates(conversations[u].history)

\* The second turn of a user who had no history has returned: four entries,
\* the first turn answered by the error reply, the second by a deployment.
C35_ErrorThenDeployment ==
    \E p \in Procs :
        /\ Completed(p)
        /\ turnsLeft = 0
        /\ turn[p].seen = 2
        /\ Len(HistoryOf(conversations, turn[p].userId)) = 4
        /\ RepliedWith(HistoryOf(conversations, turn[p].userId)[2], "error")
        /\ RepliedWith(HistoryOf(conversations, turn[p].userId)[4], "deployment")

\* C36: in the order bot, a turn whose classification output cannot be parsed
\* performs no domain mutation: no add-to-cart, remove-from-cart or
\* create-order call is made in that turn, even when the order state loaded
\* for the session still holds the action of the previous turn.

\* processAction has run in a turn whose classification did not parse.
ExecutedUnparsed ==
    /\ orderTurn.unparsed
    /\ orderTurn.after # Undefined

C36_UnparsedTurnMutatesNothing ==
    ExecutedUnparsed => orderTurn.mutated = 0

\* The stored state held an ADD_ITEM action, the classification of the next
\* turn did not parse, and processAction added the item again.
C36_StaleActionExecuted ==
    /\ ExecutedUnparsed
    /\ orderTurn.before.action # Undefined
    /\ orderTurn.before.action.type = "ADD_ITEM"
    /\ orderTurn.mutated >= 1
    /\ orderTurn.after.event = "cartUpdated"

\* Without a stored action an unparsed turn makes no call at all.
C36_UnparsedFirstTurnMutatesNothing ==
    ExecutedUnparsed /\ orderTurn.before.action = Undefined =>
        /\ orderTurn.mutated = 0
        /\ orderTurn.calls = 0

\* C37: in a CONVERSATION_SUMMARY result that answers a count query, the
\* number stated in the message ("You have asked K questions so far.") equals
\* the questionCount field of the same result, for every history, including
\* histories with repeated human messages.

\* The results processAction built in the turn: the one it returned to the
\* workflow and the one the turn ended with.
SummaryResults(t) ==
    { state \in {t.executed, t.cloudState} :
        /\ state # Undefined
        /\ state.action # Undefined
        /\ state.action.type = "CONVERSATION_SUMMARY"
        /\ state.response # Undefined
        /\ "status" \in DOMAIN state.response
        /\ state.response.status = "conversation_summarized" }

\* The message states a number of questions.
StatesCount(message) ==
    /\ Len(message) = 3
    /\ message[1] = "You have asked"
    /\ message[3] = "questions so far."

C37_StatedCountIsQuestionCount ==
    \A p \in Procs :
        WentThroughWorkflow(turn[p]) =>
            \A state \in SummaryResults(turn[p]) :
                StatesCount(state.response.message) =>
                    /\ "questionCount" \in DOMAIN state.response
                    /\ state.response.message[2] =
                           ToString(state.response.questionCount)

\* A history in which a human message occurs twice: the message states the
\* number of human turns, questionCount the number of distinct messages.
C37_RepeatedMessageCountsDiffer ==
    \E p \in Procs :
        /\ WentThroughWorkflow(turn[p])
        /\ turn[p].userId \in DOMAIN conversations
        /\ Len(HumanContents(HistoryOf(conversations, turn[p].userId))) >
               Len(Unique(HumanContents(HistoryOf(conversations, turn[p].userId))))
        /\ \E state \in SummaryResults(turn[p]) :
              /\ StatesCount(state.response.message)
              /\ "questionCount" \in DOMAIN state.response
              /\ state.response.message[2] # ToString(state.response.questionCount)

\* When no human message of the history repeats, the two numbers agree.
C37_AgreeWithoutRepeats ==
    \A p \in Procs :
        /\ WentThroughWorkflow(turn[p])
        /\ turn[p].userId \in DOMAIN conversations
        /\ Len(HumanContents(HistoryOf(conversations, turn[p].userId))) =
               Len(Unique(HumanContents(HistoryOf(conversations, turn[p].userId))))
        => \A state \in SummaryResults(turn[p]) :
               StatesCount(state.response.message) =>
                   /\ "questionCount" \in DOMAIN state.response
                   /\ state.response.message[2] =
                          ToString(state.response.questionCount)

\* C38: the three catalog views agree on which entries belong to a context:
\* an entry that a DEPLOY action can match in context c appears in the
\* friendly menu of c as "Provision or manage a <name>" and in the
\* availableServices list reported on a miss in c, also when its cloud tag is
\* not stored in lowercase.  Checked for the context of every classified turn
\* and every entry of the catalog.

\* A DEPLOY action that names the entry matches it in the context.
Matchable(entry, context) ==
    findMatchingServiceByName(entry.name, context) = entry

InFriendlyMenu(entry, context) ==
    \E k \in DOMAIN getMenuForCSP(OrAws(context), TRUE) :
        getMenuForCSP(OrAws(context), TRUE)[k] =
            <<"Provision or manage a">> \o entry.name

InAvailableServices(entry, context) ==
    \E k \in DOMAIN AvailableServices(servicesData, context) :
        AvailableServices(servicesData, context)[k] = entry.name

C38_CatalogViewsAgree ==
    \A p \in Procs :
        turn[p].resolved # Undefined =>
            \A i \in DOMAIN CatalogList :
                Matchable(CatalogList[i], turn[p].resolved.csp) =>
                    /\ InFriendlyMenu(CatalogList[i], turn[p].resolved.csp)
                    /\ InAvailableServices(CatalogList[i], turn[p].resolved.csp)

\* A turn has deployed the entry tagged GCP from the context gcp, and the menu
\* of its reply does not offer that entry.
C38_MatchedButNotOffered ==
    \E p \in Procs :
        /\ Completed(p)
        /\ DeployRequest(turn[p])
        /\ turn[p].executed # Undefined
        /\ turn[p].executed.response.status = "service_found"
        /\ turn[p].executed.response.serviceConfig.cloud = "GCP"
        /\ turn[p].resolved.csp = "gcp"
        /\ turn[p].reply # Undefined
        /\ \A k \in DOMAIN turn[p].reply.response.menu :
              turn[p].reply.response.menu[k] #
                  <<"Provision or manage a">> \o
                  turn[p].executed.response.serviceConfig.name
        /\ ~InAvailableServices(MatchedService(turn[p]), turn[p].resolved.csp)

\* For the entries whose tag is stored in lowercase the three views agree.
C38_LowercaseTagsAgree ==
    \A p \in Procs :
        turn[p].resolved # Undefined =>
            \A i \in DOMAIN CatalogList :
                /\ Matchable(CatalogList[i], turn[p].resolved.csp)
                /\ CatalogList[i].cloud = ToLowerCase(CatalogList[i].cloud)
                => /\ InFriendlyMenu(CatalogList[i], turn[p].resolved.csp)
                   /\ InAvailableServices(CatalogList[i], turn[p].resolved.csp)

====
